---- MODULE Spec2Model ----
(***************************************************************************)
(* A model of japa-openapi-assertions: the path matcher, the response      *)
(* normalizer, the validation engine, the validator compiler, the coverage *)
(* tracker and the OpenApiAssertions registration/assertion state machine. *)
(*                                                                         *)
(* JavaScript strings are sequences of one-character strings, so that      *)
(* split, replace, the parameter regex, case conversion and number         *)
(* formatting are computed and not assumed.                                *)
(***************************************************************************)
EXTENDS Integers, Sequences, FiniteSets, TLC

VARIABLES
    requestPath,     \* matchPath caller: the observed request path (argument)
    specPaths,       \* matchPath caller: the candidate templates (argument)
    matchResult,     \* matchPath caller: what the call returned
    mpc,             \* matchPath caller: "off", "ready" or "done"
    validators,      \* OpenApiAssertions.validators: the compiled table, or null
    hasRegistered,   \* OpenApiAssertions.hasRegistered
    coverageOptions, \* OpenApiAssertions.coverageOptions
    allEndpoints,    \* coverageTracker.allEndpoints: the coverage universe
    covered,         \* coverageTracker.covered: the set of recorded keys
    registrations,   \* how many registerSpecs calls registered endpoints so far
    specRegistered,  \* history: registerSpecs has succeeded and reset has not run since
    recorded,        \* history: the (route, method, status) given to recordCoverage
    pc,              \* the test code calling the library: "idle" or "returned"
    lastCall,        \* the call that has just returned or thrown, and its outcome
    document,        \* resolveRefsSync caller: the parsed document (argument)
    resolved,        \* resolveRefsSync caller: what the call returned
    rpc              \* resolveRefsSync caller: "off", "ready" or "done"

mvars == <<requestPath, specPaths, matchResult, mpc>>

avars == <<validators, hasRegistered, coverageOptions, allEndpoints, covered,
           registrations, specRegistered, recorded, pc, lastCall>>

rvars == <<document, resolved, rpc>>

vars == <<requestPath, specPaths, matchResult, mpc, validators, hasRegistered,
          coverageOptions, allEndpoints, covered, registrations, specRegistered,
          recorded, pc, lastCall, document, resolved, rpc>>

(***************************************************************************)
(* Bounds of the model.                                                    *)
(***************************************************************************)
\* The longest template list given to matchPath.
MaxTemplates == 2

\* How many registerSpecs calls with coverage enabled the test code makes.
MaxRegistrations == 1

\* How many keys the covered set holds at most.
MaxCovered == 1

\* How many calls of resolveRefsInObject fit on the call stack, one inside
\* the other.
MaxStackDepth == 8

(***************************************************************************)
(* Strings.                                                                *)
(***************************************************************************)
\* JavaScript null, as returned by matchPath and tryMatch.
Null == [null |-> TRUE]

UpperLetters ==
    <<"A","B","C","D","E","F","G","H","I","J","K","L","M",
      "N","O","P","Q","R","S","T","U","V","W","X","Y","Z">>

LowerLetters ==
    <<"a","b","c","d","e","f","g","h","i","j","k","l","m",
      "n","o","p","q","r","s","t","u","v","w","x","y","z">>

Digits == <<"0","1","2","3","4","5","6","7","8","9">>

Range(f) == { f[i] : i \in DOMAIN f }

\* The characters the regex class \w accepts.
WordChars == Range(UpperLetters) \cup Range(LowerLetters) \cup Range(Digits) \cup {"_"}

\* String.prototype.split with a one-character separator: every piece, the
\* empty ones included; a string without the separator is the only piece.
RECURSIVE Split(_, _)
Split(s, sep) ==
    IF \A i \in 1..Len(s) : s[i] # sep
    THEN <<s>>
    ELSE LET k == CHOOSE i \in 1..Len(s) :
                      s[i] = sep /\ \A j \in 1..(i - 1) : s[j] # sep
         IN  <<SubSeq(s, 1, k - 1)>> \o Split(SubSeq(s, k + 1, Len(s)), sep)

\* Array.prototype.filter(Boolean) on strings: the empty string is falsy.
FilterBoolean(parts) == SelectSeq(parts, LAMBDA p : p # <<>>)

\* s.replace(/\/$/, ''): one slash at the very end is removed.
StripTrailingSlash(s) ==
    IF Len(s) > 0 /\ s[Len(s)] = "/" THEN SubSeq(s, 1, Len(s) - 1) ELSE s

\* s || '/': the empty string is falsy.
OrSlash(s) == IF s = <<>> THEN <<"/">> ELSE s

(***************************************************************************)
(* path_matcher.ts                                                         *)
(***************************************************************************)
\* The mutant of CleanPath: the query string is kept.
CleanPathKeepsQuery(path) == OrSlash(StripTrailingSlash(path))

\* const cleanPath = requestPath.split('?')[0].replace(/\/$/, '') || '/'
CleanPath(path) == OrSlash(StripTrailingSlash(Split(path, "?")[1]))

\* path.split('/').filter(Boolean)
Segments(path) == FilterBoolean(Split(path, "/"))

\* specSegment.match(/^\{(\w+)\}$/) succeeds.
IsParamSegment(seg) ==
    /\ Len(seg) >= 3
    /\ seg[1] = "{"
    /\ seg[Len(seg)] = "}"
    /\ \A i \in 2..(Len(seg) - 1) : seg[i] \in WordChars

\* paramMatch[1]: the text between the braces.
ParamName(seg) == SubSeq(seg, 2, Len(seg) - 1)

\* params[name] = value on a plain object: an own key is overwritten.
SetKey(obj, key, value) ==
    [k \in DOMAIN obj \cup {key} |-> IF k = key THEN value ELSE obj[k]]

\* The empty object {}.
EmptyObject == [k \in {} |-> <<>>]

\* The one name \w+ accepts that a plain object does not store as a key:
\* assigning a string to __proto__ runs the inherited setter, which ignores
\* a value that is neither an object nor null.
ProtoKey == <<"_","_","p","r","o","t","o","_","_">>

\* The mutant of BindParam: a name that is already bound keeps its value.
BindParamKeepsFirst(params, name, value) ==
    IF name \in DOMAIN params \/ name = ProtoKey
    THEN params
    ELSE SetKey(params, name, value)

\* params[paramMatch[1]] = requestSegment, params being a plain object
BindParam(params, name, value) ==
    IF name = ProtoKey THEN params ELSE SetKey(params, name, value)

\* The loop of tryMatch from segment i on, with the params and score so far.
RECURSIVE MatchFrom(_, _, _, _, _)
MatchFrom(specSegments, requestSegments, i, params, score) ==
    IF i > Len(specSegments)
    THEN [params |-> params, score |-> score]
    ELSE IF IsParamSegment(specSegments[i])
         THEN MatchFrom(specSegments, requestSegments, i + 1,
                        BindParam(params, ParamName(specSegments[i]), requestSegments[i]),
                        score + 1)
         ELSE IF specSegments[i] = requestSegments[i]
              THEN MatchFrom(specSegments, requestSegments, i + 1, params, score + 10)
              ELSE Null

\* The mutant of TryMatch: the segment counts are not compared; a longer
\* request path is matched on its leading segments.
TryMatchNoCount(path, specPath) ==
    LET requestSegments == Segments(path)
        specSegments == Segments(specPath)
    IN  IF Len(requestSegments) < Len(specSegments)
        THEN Null
        ELSE LET m == MatchFrom(specSegments, requestSegments, 1, EmptyObject, 0)
             IN  IF m = Null
                 THEN Null
                 ELSE [specPath |-> specPath, params |-> m.params, score |-> m.score]

\* tryMatch(requestPath, specPath)
TryMatch(path, specPath) ==
    LET requestSegments == Segments(path)
        specSegments == Segments(specPath)
    IN  IF Len(requestSegments) # Len(specSegments)
        THEN Null
        ELSE LET m == MatchFrom(specSegments, requestSegments, 1, EmptyObject, 0)
             IN  IF m = Null
                 THEN Null
                 ELSE [specPath |-> specPath, params |-> m.params, score |-> m.score]

\* The loop of matchPath: the results of tryMatch that are not null, in the
\* order of the candidates.
RECURSIVE CollectMatches(_, _)
CollectMatches(cleanPath, templates) ==
    IF templates = <<>>
    THEN <<>>
    ELSE LET result == TryMatch(cleanPath, Head(templates))
             rest == CollectMatches(cleanPath, Tail(templates))
         IN  IF result # Null THEN <<result>> \o rest ELSE rest

\* One insertion of a stable sort: m goes behind every element the comparator
\* b.score - a.score does not put after it (score >= m.score).
RECURSIVE InsertByScore(_, _)
InsertByScore(sorted, m) ==
    IF sorted = <<>>
    THEN <<m>>
    ELSE IF Head(sorted).score >= m.score
         THEN <<Head(sorted)>> \o InsertByScore(Tail(sorted), m)
         ELSE <<m>> \o sorted

\* The mutant of SortByScore: an unstable sort, equal scores end up reversed.
RECURSIVE SortByScoreUnstable(_)
SortByScoreUnstable(matches) ==
    IF matches = <<>>
    THEN <<>>
    ELSE LET rest == SortByScoreUnstable(Tail(matches))
             m == Head(matches)
         IN  SelectSeq(rest, LAMBDA r : r.score >= m.score) \o <<m>>
                 \o SelectSeq(rest, LAMBDA r : r.score < m.score)

\* The mutant of SortByScore: ascending, the comparator's operands swapped.
RECURSIVE SortByScoreAscending(_)
SortByScoreAscending(matches) ==
    IF matches = <<>>
    THEN <<>>
    ELSE LET rest == SortByScoreAscending(Tail(matches))
             m == Head(matches)
         IN  SelectSeq(rest, LAMBDA r : r.score < m.score) \o <<m>>
                 \o SelectSeq(rest, LAMBDA r : r.score >= m.score)

\* matches.sort((a, b) => b.score - a.score): Array.prototype.sort is stable,
\* descending by score, equal scores in their original order.
RECURSIVE SortByScore(_)
SortByScore(matches) ==
    IF matches = <<>>
    THEN <<>>
    ELSE InsertByScore(SortByScore(SubSeq(matches, 1, Len(matches) - 1)),
                       matches[Len(matches)])

\* matchPath(requestPath, specPaths)
MatchPath(path, templates) ==
    LET matches == CollectMatches(CleanPath(path), templates)
    IN  IF Len(matches) = 0
        THEN Null
        ELSE LET sorted == SortByScore(matches)
             IN  [matched |-> sorted[1].specPath, params |-> sorted[1].params]

(***************************************************************************)
(* The inputs of matchPath.                                                *)
(***************************************************************************)
\* '/' + segments.join('/')
RECURSIVE JoinPath(_)
JoinPath(segs) ==
    IF segs = <<>> THEN <<>> ELSE <<"/">> \o Head(segs) \o JoinPath(Tail(segs))

PathOf(segs) == IF segs = <<>> THEN <<"/">> ELSE JoinPath(segs)

LitA == <<"a">>

LitB == <<"b">>

ParamX == <<"{","x","}">>

ParamY == <<"{","y","}">>

\* Templates of at most two segments over a literal and two parameters
\* (with ties, a repeated name, and a literal against a parameter), one
\* written with a trailing slash, one whose braces hold a name the parameter
\* regex does not accept, and one whose parameter is named __proto__.
Templates ==
    { PathOf(segs) : segs \in { <<>>, <<LitA>>, <<ParamX>>, <<ParamY>>,
                                <<LitA, LitA>>, <<LitA, ParamX>>,
                                <<ParamX, LitA>>, <<ParamX, ParamX>>,
                                <<ParamX, ParamY>> } }
        \cup { <<"/","a","/">>, <<"/","{","-","}">>,
               <<"/","{">> \o ProtoKey \o <<"}">> }

\* Observed paths without a query string: at most two segments, one of
\* three, one that spells a braced segment, and the empty string.
BasePaths ==
    { PathOf(segs) : segs \in { <<>>, <<LitA>>, <<LitB>>, <<LitA, LitA>>,
                                <<LitA, LitB>> } }
        \cup { <<"/","a","/","b","/","a">>, <<"/","{","-","}">>, <<>> }

\* Query strings, without the leading '?'.
Queries == { <<"q","/">>, <<"?","/","a">> }

\* Observed paths: as they are, with a trailing slash, with a query string.
RequestPaths ==
    BasePaths \cup { p \o <<"/">> : p \in BasePaths }
        \cup { p \o <<"?">> \o q : p \in BasePaths, q \in Queries }

TemplateLists == UNION { [1..n -> Templates] : n \in 0..MaxTemplates }

(***************************************************************************)
(* JavaScript values.  A value is a record whose only field names its      *)
(* type: undefined, null, a number, a string, a plain object (a function   *)
(* from property names to values), a zero-argument function (by the value  *)
(* it returns), or a JSON body (an opaque token the schema validators      *)
(* judge).                                                                 *)
(***************************************************************************)
Undefined == [undefined |-> TRUE]

Num(n) == [num |-> n]

Str(s) == [str |-> s]

Obj(f) == [obj |-> f]

Fn(v) == [fn |-> v]

Json(b) == [json |-> b]

\* A function that returns v the first time it is called and throws from
\* then on (a response body that can be read only once).
Once(v) == [fn |-> v, once |-> TRUE]

IsNum(v) == "num" \in DOMAIN v

IsStr(v) == "str" \in DOMAIN v

IsFn(v) == "fn" \in DOMAIN v

\* typeof v === 'object' && v !== null
IsObject(v) == "obj" \in DOMAIN v

\* ToBoolean(v)
Truthy(v) ==
    /\ v # Undefined
    /\ v # Null
    /\ IsNum(v) => v.num # 0
    /\ IsStr(v) => v.str # <<>>

\* 'key' in res
In(key, res) == "obj" \in DOMAIN res /\ key \in DOMAIN res.obj

\* res.key on an object, undefined when the key is absent or res is a primitive
Prop(res, key) == IF In(key, res) THEN res.obj[key] ELSE Undefined

\* a || b
Or(a, b) == IF Truthy(a) THEN a ELSE b

UpperChar(c) ==
    IF c \in Range(LowerLetters)
    THEN UpperLetters[CHOOSE i \in 1..26 : LowerLetters[i] = c]
    ELSE c

LowerChar(c) ==
    IF c \in Range(UpperLetters)
    THEN LowerLetters[CHOOSE i \in 1..26 : UpperLetters[i] = c]
    ELSE c

\* String.prototype.toUpperCase
ToUpperCase(s) == [i \in 1..Len(s) |-> UpperChar(s[i])]

\* String.prototype.toLowerCase
ToLowerCase(s) == [i \in 1..Len(s) |-> LowerChar(s[i])]

\* The decimal digits of a natural number.
RECURSIVE NatToString(_)
NatToString(n) ==
    IF n < 10
    THEN <<Digits[n + 1]>>
    ELSE NatToString(n \div 10) \o <<Digits[(n % 10) + 1]>>

\* String(n) of an integer.
NumberToString(n) == IF n < 0 THEN <<"-">> \o NatToString(-n) ELSE NatToString(n)

IsDigits(s) == Len(s) > 0 /\ \A i \in 1..Len(s) : s[i] \in Range(Digits)

DigitValue(c) == CHOOSE d \in 0..9 : Digits[d + 1] = c

RECURSIVE ParseDigits(_)
ParseDigits(s) ==
    IF s = <<>>
    THEN 0
    ELSE 10 * ParseDigits(SubSeq(s, 1, Len(s) - 1)) + DigitValue(s[Len(s)])

\* String(v) of a truthy string, number or plain object.
ToStringValue(v) ==
    IF IsStr(v) THEN v.str
    ELSE IF IsNum(v) THEN NumberToString(v.num)
    ELSE <<"[","o","b","j","e","c","t"," ","O","b","j","e","c","t","]">>

\* Number(v) || 0: a number is itself, a string of digits its value, the
\* empty string and null 0, and everything else NaN, which is falsy.
NumberOrZero(v) ==
    IF IsNum(v) THEN v.num
    ELSE IF IsStr(v) /\ IsDigits(v.str) THEN ParseDigits(v.str)
    ELSE 0

StartsWith(s, prefix) ==
    Len(s) >= Len(prefix) /\ SubSeq(s, 1, Len(prefix)) = prefix

\* The index of the first character of s that lies in chars, or Len(s) + 1.
FirstOf(s, chars) ==
    IF \E i \in 1..Len(s) : s[i] \in chars
    THEN CHOOSE i \in 1..Len(s) : s[i] \in chars /\ \A j \in 1..(i - 1) : s[j] \notin chars
    ELSE Len(s) + 1

(***************************************************************************)
(* response_validator.ts: parseResponse                                    *)
(***************************************************************************)
\* A function's outcome: the value it returned, or the error it threw.
Return(v) == [returned |-> v]

Throw(e) == [threw |-> e]

Threw(r) == "threw" \in DOMAIN r

InvalidResponseError == [name |-> "Error", message |-> "Invalid response: expected an object"]

UnknownFormatError ==
    [name |-> "Error",
     message |-> "Unknown response format: could not extract method, path, status, or body"]

\* Reading a property of undefined or null, or calling a string method on a
\* value that is no string.
TypeError == [name |-> "TypeError", message |-> "not an object or not a string"]

\* new URL(url).pathname of an http(s) URL: the text from the first '/' after
\* the authority up to '?' or '#', '/' when there is none.  An empty
\* authority makes the constructor throw, and extractPath then falls back on
\* url.split('?')[0].
ExtractPath(url) ==
    LET http == <<"h","t","t","p",":","/","/">>
        https == <<"h","t","t","p","s",":","/","/">>
        rest == IF StartsWith(url, https)
                THEN SubSeq(url, Len(https) + 1, Len(url))
                ELSE SubSeq(url, Len(http) + 1, Len(url))
        hostEnd == FirstOf(rest, {"/", "?", "#"})
        afterHost == SubSeq(rest, hostEnd, Len(rest))
        pathEnd == FirstOf(afterHost, {"?", "#"})
    IN  IF (StartsWith(url, http) \/ StartsWith(url, https)) /\ hostEnd > 1
        THEN IF afterHost # <<>> /\ afterHost[1] = "/"
             THEN SubSeq(afterHost, 1, pathEnd - 1)
             ELSE <<"/">>
        ELSE Split(url, "?")[1]

BodyReadError == [name |-> "Error", message |-> "body already read"]

\* (res.body as () => unknown)(): what the call returns, or what it throws.
Call(f) == IF "spent" \in DOMAIN f THEN Throw(BodyReadError) ELSE f.fn

\* The fields every shape extracts the same way: the method from
\* String(from.method || 'GET').toUpperCase(), the path from
\* extractPath(urlValue || '/'), the status from Number(status) || 0.
\* Headers are normalized too; nothing downstream reads them, and they are
\* left out.  The body is evaluated last, and calling it may throw.
Extract(from, urlValue, statusValue, body) ==
    LET url == Or(urlValue, Str(<<"/">>))
    IN  IF from = Undefined \/ from = Null \/ ~IsStr(url)
        THEN Throw(TypeError)
        ELSE IF Threw(body)
        THEN body
        ELSE Return([method |-> ToUpperCase(ToStringValue(Or(Prop(from, "method"), Str(<<"G","E","T">>)))),
                     path |-> ExtractPath(url.str),
                     status |-> NumberOrZero(statusValue),
                     body |-> body])

\* The mutant of ParseResponse: the axios shape is tried before the
\* request-and-statusCode shape.
RECURSIVE ParseResponseAxiosFirst(_)
ParseResponseAxiosFirst(response) ==
    LET from(key) == Prop(response, key)
        below(key, field) == IF from(key) \in {Undefined, Null}
                             THEN Undefined
                             ELSE Prop(from(key), field)
    IN  IF ~Truthy(response) \/ ~IsObject(response)
        THEN Throw(InvalidResponseError)
        ELSE IF In("response", response) /\ Truthy(from("response"))
                    /\ IsObject(from("response"))
             THEN ParseResponseAxiosFirst(from("response"))
             ELSE IF In("data", response) /\ In("config", response) /\ In("status", response)
                  THEN Extract(from("config"), below("config", "url"), from("status"),
                               from("data"))
             ELSE IF In("request", response) /\ In("statusCode", response)
                  THEN Extract(from("request"), below("request", "url"),
                               from("statusCode"),
                               IF IsFn(from("body")) THEN Call(from("body")) ELSE from("body"))
             ELSE IF In("body", response) /\ In("req", response) /\ In("statusCode", response)
                  THEN Extract(from("req"), below("req", "path"), from("statusCode"),
                               from("body"))
             ELSE IF In("status", response) \/ In("statusCode", response)
                  THEN Extract(response, Or(from("url"), from("path")),
                               Or(from("status"), from("statusCode")),
                               IF from("body") \notin {Undefined, Null}
                               THEN from("body")
                               ELSE IF from("data") \notin {Undefined, Null}
                                    THEN from("data")
                                    ELSE Null)
             ELSE Throw(UnknownFormatError)

\* parseResponse(response)
RECURSIVE ParseResponse(_)
ParseResponse(response) ==
    IF ~Truthy(response) \/ ~IsObject(response)
    THEN Throw(InvalidResponseError)
    ELSE IF In("response", response) /\ Truthy(Prop(response, "response"))
                /\ IsObject(Prop(response, "response"))
         THEN ParseResponse(Prop(response, "response"))
         ELSE IF In("request", response) /\ In("statusCode", response)
              THEN Extract(Prop(response, "request"),
                           IF Prop(response, "request") \in {Undefined, Null}
                           THEN Undefined
                           ELSE Prop(Prop(response, "request"), "url"),
                           Prop(response, "statusCode"),
                           IF IsFn(Prop(response, "body"))
                           THEN Call(Prop(response, "body"))
                           ELSE Prop(response, "body"))
         ELSE IF In("data", response) /\ In("config", response) /\ In("status", response)
              THEN Extract(Prop(response, "config"),
                           IF Prop(response, "config") \in {Undefined, Null}
                           THEN Undefined
                           ELSE Prop(Prop(response, "config"), "url"),
                           Prop(response, "status"),
                           Prop(response, "data"))
         ELSE IF In("body", response) /\ In("req", response) /\ In("statusCode", response)
              THEN Extract(Prop(response, "req"),
                           IF Prop(response, "req") \in {Undefined, Null}
                           THEN Undefined
                           ELSE Prop(Prop(response, "req"), "path"),
                           Prop(response, "statusCode"),
                           Prop(response, "body"))
         ELSE IF In("status", response) \/ In("statusCode", response)
              THEN Extract(response, Or(Prop(response, "url"), Prop(response, "path")),
                           Or(Prop(response, "status"), Prop(response, "statusCode")),
                           IF Prop(response, "body") \notin {Undefined, Null}
                           THEN Prop(response, "body")
                           ELSE IF Prop(response, "data") \notin {Undefined, Null}
                                THEN Prop(response, "data")
                                ELSE Null)
         ELSE Throw(UnknownFormatError)

(***************************************************************************)
(* Plain objects whose key order matters (Object.keys, Object.entries):    *)
(* the keys in JavaScript's own-property order, integer-like keys first in *)
(* ascending order, then the others in insertion order.                    *)
(***************************************************************************)
EmptyMap == [keys |-> <<>>, at |-> <<>>]

Has(o, k) == k \in DOMAIN o.at

IsArrayIndex(k) == IsDigits(k) /\ (Len(k) = 1 \/ k[1] # "0")

ComesBefore(x, k) == IsArrayIndex(x) /\ (~IsArrayIndex(k) \/ ParseDigits(x) < ParseDigits(k))

InsertKey(keys, k) ==
    IF IsArrayIndex(k)
    THEN SelectSeq(keys, LAMBDA x : ComesBefore(x, k)) \o <<k>>
             \o SelectSeq(keys, LAMBDA x : ~ComesBefore(x, k))
    ELSE Append(keys, k)

\* o[k] = v
Put(o, k, v) ==
    [keys |-> IF Has(o, k) THEN o.keys ELSE InsertKey(o.keys, k),
     at |-> SetKey(o.at, k, v)]

\* The object literal with these <<key, value>> pairs, in this order.
RECURSIVE MapOf(_)
MapOf(pairs) ==
    IF pairs = <<>>
    THEN EmptyMap
    ELSE Put(MapOf(SubSeq(pairs, 1, Len(pairs) - 1)),
             pairs[Len(pairs)][1], pairs[Len(pairs)][2])

(***************************************************************************)
(* schema_builder.ts                                                       *)
(***************************************************************************)
\* const HTTP_METHODS
HTTP_METHODS ==
    << <<"g","e","t">>, <<"p","o","s","t">>, <<"p","u","t">>, <<"p","a","t","c","h">>,
       <<"d","e","l","e","t","e">>, <<"o","p","t","i","o","n","s">>,
       <<"h","e","a","d">>, <<"t","r","a","c","e">> >>

\* The schema engine (AJV) is outside the repository: a schema is a name,
\* ajv.compile throws on the schemas in UncompilableSchemas, and a compiled
\* validator accepts the bodies SchemaAccepts lists.
UncompilableSchemas == { "Broken" }

SchemaAccepts == [Pet |-> { "pet" }, Any |-> { "pet", "petWithoutName" }, Broken |-> {}]

\* compileSchema(ajv, schema, id)
CompileSchema(schema) ==
    IF schema \in UncompilableSchemas
    THEN Throw([name |-> "Error", message |-> "schema is invalid"])
    ELSE Return([schema |-> schema])

\* The mutant of ResponseEntry: a schema that does not compile gets a body
\* validator all the same.
ResponseEntryWithoutCompiling(responses, statusCode, response) ==
    IF "schema" \in DOMAIN response
    THEN Put(responses, statusCode, [body |-> [schema |-> response.schema]])
    ELSE Put(responses, statusCode, [body |-> Undefined])

\* The body of the loop over operation.responses: the entry of one status.
\* With a JSON schema the entry is assigned inside the try block, after
\* compileSchema returned; when it throws, nothing is assigned.
ResponseEntry(responses, statusCode, response) ==
    IF "schema" \in DOMAIN response
    THEN IF Threw(CompileSchema(response.schema))
         THEN responses
         ELSE Put(responses, statusCode, [body |-> CompileSchema(response.schema).returned])
    ELSE Put(responses, statusCode, [body |-> Undefined])

\* The loop over Object.entries(operation.responses), from status i on.
RECURSIVE BuildResponses(_, _, _)
BuildResponses(declared, i, responses) ==
    IF i > Len(declared.keys)
    THEN responses
    ELSE BuildResponses(declared, i + 1,
                        ResponseEntry(responses, declared.keys[i],
                                      declared.at[declared.keys[i]]))

\* The loop over HTTP_METHODS for one path item, from method i on: the
\* path's validators and the coverage entries so far.
RECURSIVE BuildMethods(_, _, _, _, _)
BuildMethods(path, pathItem, i, pathValidators, coverageEntries) ==
    IF i > Len(HTTP_METHODS)
    THEN [pathValidators |-> pathValidators, coverageEntries |-> coverageEntries]
    ELSE LET method == HTTP_METHODS[i]
         IN  IF ~Has(pathItem, method) \/ "responses" \notin DOMAIN pathItem.at[method]
             THEN BuildMethods(path, pathItem, i + 1, pathValidators, coverageEntries)
             ELSE LET declared == pathItem.at[method].responses
                      statuses == declared.keys
                  IN  BuildMethods(path, pathItem, i + 1,
                          Put(pathValidators, method,
                              [responses |-> BuildResponses(declared, 1, EmptyMap)]),
                          IF Len(statuses) > 0
                          THEN Append(coverageEntries,
                                      [route |-> path, method |-> ToUpperCase(method),
                                       statuses |-> statuses])
                          ELSE coverageEntries)

\* The loop over Object.entries(spec.paths), from path i on.
RECURSIVE BuildPaths(_, _, _, _)
BuildPaths(paths, i, table, coverageEntries) ==
    IF i > Len(paths.keys)
    THEN [validators |-> table, coverageEntries |-> coverageEntries]
    ELSE LET path == paths.keys[i]
             pathItem == paths.at[path]
         IN  IF pathItem = Null
             THEN BuildPaths(paths, i + 1, table, coverageEntries)
             ELSE LET built == BuildMethods(path, pathItem, 1,
                                   IF Has(table, path) THEN table.at[path] ELSE EmptyMap,
                                   coverageEntries)
                  IN  BuildPaths(paths, i + 1, Put(table, path, built.pathValidators),
                                 built.coverageEntries)

\* buildPathValidators(spec, validators, coverageEntries, ajv)
BuildPathValidators(spec, table, coverageEntries) ==
    IF "paths" \notin DOMAIN spec
    THEN [validators |-> table, coverageEntries |-> coverageEntries]
    ELSE BuildPaths(spec.paths, 1, table, coverageEntries)

\* loadAndValidateSpecSync(filePath): readFileSync throws on a file that
\* cannot be read, JSON.parse on text that is not JSON.
LoadAndValidateSpecSync(file) ==
    IF file.kind = "unreadable"
    THEN Throw([name |-> "Error", message |-> "ENOENT", file |-> file.name])
    ELSE IF file.kind = "invalidJson"
         THEN Throw([name |-> "Error", message |-> "Failed to parse OpenAPI spec: Invalid JSON",
                     file |-> file.name])
         ELSE Return(file.document)

\* The loop of buildValidatorsSync over the spec files, from file i on.  The
\* documents of this model hold no $ref, and resolveRefsSync returns them
\* as they are.
RECURSIVE BuildFrom(_, _, _, _)
BuildFrom(files, i, table, coverageEntries) ==
    IF i > Len(files)
    THEN Return([validators |-> table, coverageEntries |-> coverageEntries])
    ELSE LET spec == LoadAndValidateSpecSync(files[i])
         IN  IF Threw(spec)
             THEN spec
             ELSE LET built == BuildPathValidators(spec.returned, table, coverageEntries)
                  IN  BuildFrom(files, i + 1, built.validators, built.coverageEntries)

\* buildValidatorsSync(specPaths)
BuildValidatorsSync(files) == BuildFrom(files, 1, EmptyMap, <<>>)

(***************************************************************************)
(* response_validator.ts: validateResponse                                 *)
(***************************************************************************)
DefaultKey == <<"d","e","f","a","u","l","t">>

\* `${statusCode[0]}XX`
WildcardKey(statusCode) == <<statusCode[1], "X", "X">>

\* The mutant of ResponseValidatorFor: the wildcard is tried before 'default'.
ResponseValidatorWildcardFirst(responses, statusCode) ==
    IF Has(responses, statusCode) THEN responses.at[statusCode]
    ELSE IF Has(responses, WildcardKey(statusCode)) THEN responses.at[WildcardKey(statusCode)]
    ELSE IF Has(responses, DefaultKey) THEN responses.at[DefaultKey]
    ELSE Undefined

\* responses[statusCode] || responses['default'] || responses[`${statusCode[0]}XX`]
\* (an entry is an object, and so truthy)
ResponseValidatorFor(responses, statusCode) ==
    IF Has(responses, statusCode) THEN responses.at[statusCode]
    ELSE IF Has(responses, DefaultKey) THEN responses.at[DefaultKey]
    ELSE IF Has(responses, WildcardKey(statusCode)) THEN responses.at[WildcardKey(statusCode)]
    ELSE Undefined

\* responseValidator.body(parsed.body): whether the compiled schema accepts.
BodyValid(validator, body) ==
    "json" \in DOMAIN body /\ body.json \in SchemaAccepts[validator.schema]

\* responseValidator.body.errors after a call that returned false: the
\* engine's issues (an array, at least one issue), each with its
\* instancePath, message, keyword and params.  After a call that returned
\* true it is null, and it is not read then.
BodyErrors(validator, body) ==
    << [instancePath |-> <<>>, message |-> [text |-> "must match schema"],
        keyword |-> validator.schema, params |-> [schema |-> validator.schema]] >>

\* The errors of a body the validator rejected: one per issue, actual being
\* getValueAtPath(parsed.body, instancePath), the body itself for ''.
BodyValidationErrors(validator, body) ==
    [i \in 1..Len(BodyErrors(validator, body)) |->
        [path |-> BodyErrors(validator, body)[i].instancePath,
         message |-> BodyErrors(validator, body)[i].message,
         keyword |-> BodyErrors(validator, body)[i].keyword,
         expected |-> BodyErrors(validator, body)[i].params,
         actual |-> body]]

NoMatchingPathError(parsed, templates) ==
    [path |-> <<>>,
     message |-> [text |-> "No matching path found in OpenAPI spec for",
                  method |-> parsed.method, path |-> parsed.path],
     actual |-> parsed.path,
     expected |-> templates]

NoOperationError(parsed, matched, method) ==
    [path |-> <<>>,
     message |-> [text |-> "No <METHOD> operation defined for",
                  method |-> parsed.method, path |-> matched],
     actual |-> method]

NoResponseSchemaError(parsed, matched, statusCode, responses) ==
    [path |-> <<>>,
     message |-> [text |-> "No response schema defined for",
                  method |-> parsed.method, path |-> matched, status |-> statusCode],
     actual |-> statusCode,
     expected |-> responses.keys]

Invalid(errors) == [valid |-> FALSE, errors |-> errors]

Valid == [valid |-> TRUE]

\* The lower-case names every plain object inherits from Object.prototype:
\* reading one of them from an operations object yields the inherited value.
InheritedKeys ==
    { <<"c","o","n","s","t","r","u","c","t","o","r">>, ProtoKey }

\* validators[pathMatch.matched]?.[method]: an own operation, an inherited
\* value (which has no responses), or undefined.
PathValidators(operations, method) ==
    IF Has(operations, method) THEN operations.at[method]
    ELSE IF method \in InheritedKeys THEN [responses |-> Undefined]
    ELSE Undefined

\* The mutant of ValidateParsed: the body is never given to the validator.
ValidateParsedIgnoresBody(parsed, table) ==
    LET pathMatch == MatchPath(parsed.path, table.keys)
        method == ToLowerCase(parsed.method)
        statusCode == NumberToString(parsed.status)
    IN  IF pathMatch = Null
        THEN Return(Invalid(<<NoMatchingPathError(parsed, table.keys)>>))
        ELSE LET pathValidators == PathValidators(table.at[pathMatch.matched], method)
             IN  IF pathValidators = Undefined
                 THEN Return(Invalid(<<NoOperationError(parsed, pathMatch.matched,
                                                        method)>>))
                 ELSE IF pathValidators.responses = Undefined
                 THEN Throw(TypeError)
                 ELSE IF ResponseValidatorFor(pathValidators.responses, statusCode)
                            = Undefined
                 THEN Return(Invalid(<<NoResponseSchemaError(parsed, pathMatch.matched,
                                                             statusCode,
                                                             pathValidators.responses)>>))
                 ELSE Return(Valid)

\* validateResponse after parseResponse returned: path, method, status, body.
\* Reading responses[statusCode] of an inherited value throws a TypeError.
ValidateParsed(parsed, table) ==
    LET pathMatch == MatchPath(parsed.path, table.keys)
        method == ToLowerCase(parsed.method)
        statusCode == NumberToString(parsed.status)
    IN  IF pathMatch = Null
        THEN Return(Invalid(<<NoMatchingPathError(parsed, table.keys)>>))
        ELSE LET pathValidators == PathValidators(table.at[pathMatch.matched], method)
             IN  IF pathValidators = Undefined
                 THEN Return(Invalid(<<NoOperationError(parsed, pathMatch.matched,
                                                        method)>>))
                 ELSE IF pathValidators.responses = Undefined
                 THEN Throw(TypeError)
                 ELSE LET responses == pathValidators.responses
                          responseValidator == ResponseValidatorFor(responses, statusCode)
                      IN  IF responseValidator = Undefined
                          THEN Return(Invalid(<<NoResponseSchemaError(
                                                   parsed, pathMatch.matched,
                                                   statusCode, responses)>>))
                          ELSE IF responseValidator.body # Undefined
                                      /\ ~BodyValid(responseValidator.body, parsed.body)
                                      /\ Len(BodyErrors(responseValidator.body,
                                                        parsed.body)) > 0
                               THEN Return(Invalid(BodyValidationErrors(
                                                       responseValidator.body,
                                                       parsed.body)))
                               ELSE Return(Valid)

\* validateResponse(response, validators): parseResponse may throw.
ValidateResponse(response, table) ==
    LET parsed == ParseResponse(response)
    IN  IF Threw(parsed)
        THEN parsed
        ELSE ValidateParsed(parsed.returned, table)

(***************************************************************************)
(* schema_builder.ts: the reference resolver.  A parsed JSON document is a *)
(* JavaScript value: a string, an array, or a plain object whose property  *)
(* names are strings (sequences of characters).                            *)
(***************************************************************************)
Arr(items) == [arr |-> items]

\* Array.isArray(v)
IsArray(v) == "arr" \in DOMAIN v

RefKey == <<"$","r","e","f">>

\* s.replace(/pq/g, c) for a pattern of two characters: every occurrence,
\* found from the left, none of them overlapping.
RECURSIVE ReplaceAll(_, _, _)
ReplaceAll(s, pattern, c) ==
    IF Len(s) < 2
    THEN s
    ELSE IF SubSeq(s, 1, 2) = pattern
         THEN <<c>> \o ReplaceAll(SubSeq(s, 3, Len(s)), pattern, c)
         ELSE <<s[1]>> \o ReplaceAll(Tail(s), pattern, c)

\* segment.replace(/~1/g, '/').replace(/~0/g, '~')
DecodeSegment(segment) ==
    ReplaceAll(ReplaceAll(segment, <<"~","1">>, "/"), <<"~","0">>, "~")

\* current && typeof current === 'object' && decoded in current: an own
\* property, an array index or length, or a property every object inherits.
InValue(decoded, current) ==
    \/ /\ IsObject(current)
       /\ decoded \in DOMAIN current.obj \/ decoded \in InheritedKeys
    \/ /\ IsArray(current)
       /\ \/ IsArrayIndex(decoded) /\ ParseDigits(decoded) < Len(current.arr)
          \/ decoded = <<"l","e","n","g","t","h">>
          \/ decoded \in InheritedKeys

\* current[decoded], for a property that is in current.  Object.prototype
\* and Array.prototype have no enumerable property of their own.
Member(current, decoded) ==
    IF IsObject(current) /\ decoded \in DOMAIN current.obj
    THEN current.obj[decoded]
    ELSE IF IsArray(current) /\ IsArrayIndex(decoded)
         THEN current.arr[ParseDigits(decoded) + 1]
         ELSE IF IsArray(current) /\ decoded = <<"l","e","n","g","t","h">>
              THEN Num(Len(current.arr))
              ELSE IF decoded = ProtoKey
                   THEN Obj(<<>>)
                   ELSE Fn(IF IsArray(current) THEN "Array" ELSE "Object")

\* The loop of resolveLocalRef over the segments of the pointer.
RECURSIVE WalkPointer(_, _)
WalkPointer(current, path) ==
    IF path = <<>>
    THEN current
    ELSE LET decoded == DecodeSegment(Head(path))
         IN  IF InValue(decoded, current)
             THEN WalkPointer(Member(current, decoded), Tail(path))
             ELSE Undefined

\* The mutant of ResolveLocalRef: the pointer is cut after '#' and not
\* after '#/'.
ResolveLocalRefFromSlash(ref, root) ==
    WalkPointer(root, Split(SubSeq(ref, 2, Len(ref)), "/"))

\* resolveLocalRef(ref, root)
ResolveLocalRef(ref, root) ==
    WalkPointer(root, Split(SubSeq(ref, 3, Len(ref)), "/"))

\* The own enumerable properties a spread { ...v } copies: an object's
\* properties, an array's items and a string's characters under their
\* indices, and nothing of any other value.
Spread(v) ==
    IF IsObject(v) THEN v.obj
    ELSE IF IsArray(v)
         THEN [k \in { NatToString(i - 1) : i \in 1..Len(v.arr) } |->
                  v.arr[ParseDigits(k) + 1]]
         ELSE IF IsStr(v)
              THEN [k \in { NatToString(i - 1) : i \in 1..Len(v.str) } |->
                       Str(<<v.str[ParseDigits(k) + 1]>>)]
              ELSE <<>>

\* const { $ref: _ref, ...rest } = record
Rest(record) == [k \in (DOMAIN record) \ {RefKey} |-> record[k]]

\* The mutant of MergeSiblings: the target's key wins over the sibling's.
MergeSiblingsTargetWins(target, rest) ==
    LET own == Spread(target)
    IN  Obj([k \in (DOMAIN own) \cup (DOMAIN rest) |->
                IF k \in DOMAIN own THEN own[k] ELSE rest[k]])

\* { ...target, ...rest }
MergeSiblings(target, rest) ==
    LET own == Spread(target)
    IN  Obj([k \in (DOMAIN own) \cup (DOMAIN rest) |->
                IF k \in DOMAIN rest THEN rest[k] ELSE own[k]])

\* typeof record.$ref === 'string' && ref.startsWith('#/') &&
\* resolveLocalRef(ref, root) !== undefined
HasResolvableRef(record, root) ==
    /\ RefKey \in DOMAIN record
    /\ IsStr(record[RefKey])
    /\ StartsWith(record[RefKey].str, <<"#","/">>)
    /\ ResolveLocalRef(record[RefKey].str, root) # Undefined

\* resolveRefsInObject(obj, root)
RECURSIVE ResolveRefsInObject(_, _)
ResolveRefsInObject(obj, root) ==
    IF ~IsObject(obj) /\ ~IsArray(obj)
    THEN obj
    ELSE IF IsArray(obj)
         THEN Arr([i \in 1..Len(obj.arr) |-> ResolveRefsInObject(obj.arr[i], root)])
         ELSE IF HasResolvableRef(obj.obj, root)
              THEN LET target == ResolveLocalRef(obj.obj[RefKey].str, root)
                       rest == Rest(obj.obj)
                   IN  IF DOMAIN rest # {}
                       THEN MergeSiblings(ResolveRefsInObject(target, root), rest)
                       ELSE ResolveRefsInObject(target, root)
              ELSE Obj([k \in DOMAIN obj.obj |-> ResolveRefsInObject(obj.obj[k], root)])

\* resolveRefsSync(spec)
ResolveRefsSync(spec) == ResolveRefsInObject(spec, spec)

\* What the engine throws when a call does not fit on the call stack.
RangeError == [name |-> "RangeError", message |-> "Maximum call stack size exceeded"]

\* resolveRefsInObject(obj, root) as the engine runs it, on a call stack
\* that holds depth calls already: what it returns, or the RangeError of
\* the call that did not fit.  Nothing in the function catches it.
RECURSIVE ResolveOnStack(_, _, _)
ResolveOnStack(obj, root, depth) ==
    IF depth >= MaxStackDepth
    THEN Throw(RangeError)
    ELSE IF ~IsObject(obj) /\ ~IsArray(obj)
    THEN Return(obj)
    ELSE IF IsArray(obj)
    THEN LET items == [i \in 1..Len(obj.arr) |->
                          ResolveOnStack(obj.arr[i], root, depth + 1)]
         IN  IF \E i \in DOMAIN items : Threw(items[i])
             THEN Throw(RangeError)
             ELSE Return(Arr([i \in DOMAIN items |-> items[i].returned]))
    ELSE IF HasResolvableRef(obj.obj, root)
    THEN LET target == ResolveOnStack(ResolveLocalRef(obj.obj[RefKey].str, root),
                                      root, depth + 1)
             rest == Rest(obj.obj)
         IN  IF Threw(target)
             THEN target
             ELSE IF DOMAIN rest # {}
                  THEN Return(MergeSiblings(target.returned, rest))
                  ELSE target
    ELSE LET props == [k \in DOMAIN obj.obj |->
                          ResolveOnStack(obj.obj[k], root, depth + 1)]
         IN  IF \E k \in DOMAIN props : Threw(props[k])
             THEN Throw(RangeError)
             ELSE Return(Obj([k \in DOMAIN props |-> props[k].returned]))

(***************************************************************************)
(* coverage.ts                                                             *)
(***************************************************************************)
\* The mutant of MakeKey: the method is taken as it is written.
MakeKeyKeepsCase(route, method, status) ==
    method \o <<":">> \o route \o <<":">> \o status

\* makeKey(route, method, status)
MakeKey(route, method, status) ==
    ToUpperCase(method) \o <<":">> \o route \o <<":">> \o status

\* The records registerEndpoints pushes for one entry.
EntryRecords(entry) ==
    [i \in 1..Len(entry.statuses) |->
        [route |-> entry.route, method |-> entry.method, status |-> entry.statuses[i]]]

\* registerEndpoints(entries): the universe afterwards.
RECURSIVE RegisterEndpoints(_, _)
RegisterEndpoints(endpoints, entries) ==
    IF entries = <<>>
    THEN endpoints
    ELSE RegisterEndpoints(endpoints \o EntryRecords(Head(entries)), Tail(entries))

\* recordCoverage(route, method, status): the covered set afterwards.
RecordCoverage(keys, route, method, status) ==
    keys \cup { MakeKey(route, method, status) }

\* getUncovered()
GetUncovered ==
    SelectSeq(allEndpoints, LAMBDA e : MakeKey(e.route, e.method, e.status) \notin covered)

\* Math.round of the quotient n / d of naturals, d > 0: the nearest integer,
\* a half rounded up.
RoundRatio(n, d) == (2 * n + d) \div (2 * d)

\* The mutant of GetStats: an empty universe counts as nothing covered.
GetStatsEmptyIsZero ==
    [total |-> Len(allEndpoints),
     covered |-> Cardinality(covered),
     percentage |-> IF Len(allEndpoints) > 0
                    THEN RoundRatio(Cardinality(covered) * 100, Len(allEndpoints))
                    ELSE 0]

\* getStats()
GetStats ==
    LET total == Len(allEndpoints)
        size == Cardinality(covered)
    IN  [total |-> total,
         covered |-> size,
         percentage |-> IF total > 0 THEN RoundRatio(size * 100, total) ELSE 100]

(***************************************************************************)
(* openapi_assertions.ts                                                   *)
(***************************************************************************)
ConfigurationError ==
    [name |-> "Error",
     message |-> "Cannot validate responses without defining API schemas. Please configure the plugin with schemas."]

AssertionError(errors) ==
    [name |-> "AssertionError",
     message |-> [text |-> "Response does not match API schema:", details |-> errors],
     actual |-> errors,
     expected |-> "valid response matching OpenAPI schema"]

\* coverageOptions = {}
NoOptions == [reportCoverage |-> FALSE, exportCoverage |-> FALSE]

\* The mutant of CoverageEnabled: exportCoverage alone does not count.
CoverageEnabledByReportOnly(options) == options.reportCoverage

\* options.reportCoverage || options.exportCoverage
CoverageEnabled(options) == options.reportCoverage \/ options.exportCoverage

NoCall == [op |-> "none"]

\* The mutant of StateAfterReset: reset clears nothing but the options.
StateKeptByReset ==
    [validators |-> validators, hasRegistered |-> hasRegistered,
     coverageOptions |-> NoOptions]

\* reset(): the three static fields afterwards.
StateAfterReset ==
    [validators |-> Null, hasRegistered |-> FALSE, coverageOptions |-> NoOptions]

\* getValidators()
GetValidators ==
    IF validators = Null THEN Throw(ConfigurationError) ELSE Return(validators)

\* The mutant of AssertionOutcome: an invalid result is not thrown.
AssertionOutcomeNeverThrows(result) == Return(Undefined)

\* The end of isValidResponse: an invalid result is thrown as an
\* AssertionError carrying its errors, a valid one returns.
AssertionOutcome(result) ==
    IF ~result.valid
    THEN Throw(AssertionError(result.errors))
    ELSE Return(Undefined)

\* The response as the coverage step finds it, after validateResponse has
\* parsed it: a body function that parseResponse called is spent if it can
\* be called only once.
RECURSIVE CalledOnce(_)
CalledOnce(response) ==
    IF In("response", response) /\ IsObject(Prop(response, "response"))
    THEN Obj([response.obj EXCEPT !["response"] = CalledOnce(@)])
    ELSE IF In("request", response) /\ In("statusCode", response)
              /\ IsFn(Prop(response, "body")) /\ "once" \in DOMAIN Prop(response, "body")
         THEN Obj([response.obj EXCEPT !["body"] = [fn |-> @.fn, once |-> TRUE,
                                                    spent |-> TRUE]])
         ELSE response

\* The mutant of AfterCoverage: what the coverage step throws is thrown on.
AfterCoverageRethrows(parsedAgain, outcome) ==
    IF Threw(parsedAgain) THEN parsedAgain ELSE outcome

\* try { coverage step } catch { }: what the step throws is dropped, and
\* isValidResponse ends as the validation result says.
AfterCoverage(parsedAgain, outcome) == outcome

\* The coverage step of isValidResponse, inside try/catch: the covered set
\* afterwards.  It runs after validateResponse returned, so parseResponse
\* has already returned for this response once.
CoverageStep(response, table) ==
    LET parsed == ParseResponse(CalledOnce(response))
    IN  IF Threw(parsed)
        THEN covered
        ELSE LET pathMatch == MatchPath(parsed.returned.path, table.keys)
             IN  IF pathMatch # Null
                 THEN RecordCoverage(covered, pathMatch.matched, parsed.returned.method,
                                     NumberToString(parsed.returned.status))
                 ELSE covered

\* The arguments the coverage step gives to recordCoverage, if it calls it.
CoverageCalls(response, table) ==
    LET parsed == ParseResponse(CalledOnce(response))
    IN  IF Threw(parsed)
        THEN {}
        ELSE LET pathMatch == MatchPath(parsed.returned.path, table.keys)
             IN  IF pathMatch # Null
                 THEN { [route |-> pathMatch.matched, method |-> parsed.returned.method,
                         status |-> NumberToString(parsed.returned.status)] }
                 ELSE {}

\* registerSpecs(schemaPathsOrURLs, options)
RegisterSpecs(files, options) ==
    LET built == BuildValidatorsSync(files)
    IN  /\ pc = "idle"
        /\ (~Threw(built) /\ CoverageEnabled(options)) => registrations < MaxRegistrations
        /\ hasRegistered' = TRUE
        /\ coverageOptions' = options
        /\ IF Threw(built)
           THEN /\ lastCall' = [op |-> "registerSpecs", files |-> files,
                                options |-> options, outcome |-> built]
                /\ UNCHANGED <<validators, allEndpoints, registrations, specRegistered>>
           ELSE /\ validators' = built.returned.validators
                /\ specRegistered' = TRUE
                /\ IF CoverageEnabled(options)
                   THEN /\ allEndpoints' = RegisterEndpoints(allEndpoints,
                                                             built.returned.coverageEntries)
                        /\ registrations' = registrations + 1
                   ELSE UNCHANGED <<allEndpoints, registrations>>
                /\ lastCall' = [op |-> "registerSpecs", files |-> files,
                                options |-> options, outcome |-> Return(Undefined)]
        /\ pc' = "returned"
        /\ UNCHANGED <<covered, recorded, requestPath, specPaths, matchResult, mpc>>
        /\ UNCHANGED rvars

\* reset()
Reset ==
    /\ pc = "idle"
    /\ validators' = StateAfterReset.validators
    /\ hasRegistered' = StateAfterReset.hasRegistered
    /\ coverageOptions' = StateAfterReset.coverageOptions
    /\ specRegistered' = FALSE
    /\ lastCall' = [op |-> "reset", outcome |-> Return(Undefined)]
    /\ pc' = "returned"
    /\ UNCHANGED <<allEndpoints, covered, registrations, recorded,
                   requestPath, specPaths, matchResult, mpc>>
    /\ UNCHANGED rvars

\* isValidResponse(response)
IsValidResponse(response) ==
    /\ pc = "idle"
    /\ IF ~hasRegistered
       THEN /\ lastCall' = [op |-> "isValidResponse", response |-> response,
                            outcome |-> Throw(ConfigurationError)]
            /\ UNCHANGED <<covered, recorded>>
       ELSE IF Threw(GetValidators)
       THEN /\ lastCall' = [op |-> "isValidResponse", response |-> response,
                            outcome |-> GetValidators]
            /\ UNCHANGED <<covered, recorded>>
       ELSE LET result == ValidateResponse(response, GetValidators.returned)
            IN  IF Threw(result)
                THEN /\ lastCall' = [op |-> "isValidResponse", response |-> response,
                                     outcome |-> result]
                     /\ UNCHANGED <<covered, recorded>>
                ELSE /\ covered' = IF CoverageEnabled(coverageOptions)
                                   THEN CoverageStep(response, GetValidators.returned)
                                   ELSE covered
                     /\ recorded' = IF CoverageEnabled(coverageOptions)
                                    THEN recorded
                                           \cup CoverageCalls(response,
                                                              GetValidators.returned)
                                    ELSE recorded
                     /\ Cardinality(covered') <= MaxCovered
                     /\ lastCall' = [op |-> "isValidResponse", response |-> response,
                                     result |-> result.returned,
                                     outcome |->
                                         IF CoverageEnabled(coverageOptions)
                                         THEN AfterCoverage(
                                                  ParseResponse(CalledOnce(response)),
                                                  AssertionOutcome(result.returned))
                                         ELSE AssertionOutcome(result.returned)]
    /\ pc' = "returned"
    /\ UNCHANGED <<validators, hasRegistered, coverageOptions, allEndpoints, registrations,
                   specRegistered, requestPath, specPaths, matchResult, mpc>>
    /\ UNCHANGED rvars

\* The test goes on to its next statement.
Continue ==
    /\ pc = "returned"
    /\ pc' = "idle"
    /\ lastCall' = NoCall
    /\ UNCHANGED <<validators, hasRegistered, coverageOptions, allEndpoints, covered,
                   registrations, specRegistered, recorded,
                   requestPath, specPaths, matchResult, mpc>>
    /\ UNCHANGED rvars

(***************************************************************************)
(* The spec files, the options and the responses the test code uses.       *)
(***************************************************************************)
Get == <<"g","e","t">>

Post == <<"p","o","s","t">>

Delete == <<"d","e","l","e","t","e">>

S200 == <<"2","0","0">>

S404 == <<"4","0","4">>

S2XX == <<"2","X","X">>

S4XX == <<"4","X","X">>

S5XX == <<"5","X","X">>

\* A response with an application/json schema, and one without.
JsonResponse(schema) == [description |-> "json", schema |-> schema]

PlainResponse == [description |-> "no json content"]

Operation(pairs) == [responses |-> MapOf(pairs)]

\* A first document.  /a/{x}: an exact status and a wildcard.  /a/b: exact
\* and default under get, default and wildcard under post.  /c: a schema
\* that does not compile under get, and a delete operation without responses.
DocumentA ==
    [openapi |-> "3.1.0",
     paths |-> MapOf(<<
        << <<"/","a","/","{","x","}">>,
           MapOf(<< <<Get, Operation(<< <<S200, JsonResponse("Pet")>>,
                                        <<S4XX, PlainResponse>> >>)>> >>) >>,
        << <<"/","a","/","b">>,
           MapOf(<< <<Get, Operation(<< <<DefaultKey, JsonResponse("Any")>>,
                                        <<S200, JsonResponse("Pet")>> >>)>>,
                    <<Post, Operation(<< <<S2XX, JsonResponse("Pet")>>,
                                         <<DefaultKey, PlainResponse>> >>)>> >>) >>,
        << <<"/","c">>,
           MapOf(<< <<Get, Operation(<< <<S200, JsonResponse("Broken")>>,
                                        <<S2XX, JsonResponse("Any")>> >>)>>,
                    <<Delete, [summary |-> "no responses"]>> >>) >> >>)]

\* A second document.  /a/{y} ties with /a/{x}; /a/b declares get again;
\* /d declares no operation.
DocumentB ==
    [openapi |-> "3.1.0",
     paths |-> MapOf(<<
        << <<"/","a","/","{","y","}">>,
           MapOf(<< <<Get, Operation(<< <<S404, PlainResponse>> >>)>> >>) >>,
        << <<"/","a","/","b">>,
           MapOf(<< <<Get, Operation(<< <<S5XX, JsonResponse("Any")>> >>)>> >>) >>,
        << <<"/","d">>, EmptyMap >> >>)]

FileA == [kind |-> "json", name |-> "a.json", document |-> DocumentA]

FileB == [kind |-> "json", name |-> "b.json", document |-> DocumentB]

InvalidJsonFile == [kind |-> "invalidJson", name |-> "broken.json"]

UnreadableFile == [kind |-> "unreadable", name |-> "missing.json"]

\* The lists of spec files given to registerSpecs.
FileLists ==
    { <<>>, <<FileA>>, <<FileA, FileB>>, <<InvalidJsonFile>>, <<FileA, UnreadableFile>> }

\* The option bags given to registerSpecs.
OptionBags ==
    { NoOptions,
      [reportCoverage |-> TRUE, exportCoverage |-> FALSE],
      [reportCoverage |-> FALSE, exportCoverage |-> TRUE] }

\* A response of @japa/api-client: request.method, request.url, statusCode
\* and a body() accessor.
JapaResponse(method, url, status, body) ==
    Obj([request |-> Obj([method |-> Str(method), url |-> Str(url)]),
         statusCode |-> Num(status),
         body |-> Fn(Json(body))])

\* A response of axios: data, config and status.
AxiosResponse(method, url, status, body) ==
    Obj([data |-> Json(body),
         config |-> Obj([method |-> Str(method), url |-> Str(url)]),
         status |-> Num(status)])

GET == <<"G","E","T">>

\* The values given to isValidResponse: client responses on the declared
\* and undeclared paths, methods and statuses, with bodies the schemas
\* accept and reject, a body that can be read only once, and values
\* parseResponse does not accept or trips over.
Responses ==
    { JapaResponse(GET, <<"/","a","/","b">>, 200, "pet"),
      JapaResponse(GET, <<"/","a","/","b">>, 200, "petWithoutName"),
      JapaResponse(GET, <<"/","a","/","b">>, 404, "error"),
      JapaResponse(Post, <<"/","a","/","b">>, 200, "petWithoutName"),
      JapaResponse(GET, <<"/","a","/","z","?","q">>, 404, "error"),
      JapaResponse(<<"c","o","n","s","t","r","u","c","t","o","r">>,
                   <<"/","a","/","b">>, 200, "pet"),
      JapaResponse(GET, <<"/","c","/">>, 200, "petWithoutName"),
      JapaResponse(GET, <<"/","d">>, 200, "pet"),
      Obj([request |-> Obj([method |-> Str(GET), url |-> Str(<<"/","a","/","b">>)]),
           statusCode |-> Num(200),
           body |-> Once(Json("pet"))]),
      AxiosResponse(<<"g","e","t">>,
                    <<"h","t","t","p",":","/","/","h","/","a","/","b","?","q">>,
                    200, "petWithoutName"),
      Obj([response |-> JapaResponse(GET, <<"/","a","/","b">>, 200, "pet")]),
      Obj([request |-> Undefined, statusCode |-> Num(200)]),
      Obj([headers |-> Undefined]),
      Undefined }

(***************************************************************************)
(* The specifications.                                                     *)
(***************************************************************************)
\* OpenApiAssertions and the coverage tracker after the module is loaded.
Init ==
    /\ validators = Null
    /\ hasRegistered = FALSE
    /\ coverageOptions = NoOptions
    /\ allEndpoints = <<>>
    /\ covered = {}
    /\ registrations = 0
    /\ specRegistered = FALSE
    /\ recorded = {}
    /\ pc = "idle"
    /\ lastCall = NoCall
    /\ requestPath = <<>>
    /\ specPaths = <<>>
    /\ matchResult = Null
    /\ mpc = "off"
    /\ document = Null
    /\ resolved = Null
    /\ rpc = "off"

Next ==
    \/ \E files \in FileLists, options \in OptionBags : RegisterSpecs(files, options)
    \/ Reset
    \/ \E response \in Responses : IsValidResponse(response)
    \/ Continue

\* The test code calling registerSpecs, reset and isValidResponse in any order.
Spec == Init /\ [][Next]_vars

\* A direct caller of matchPath, on every observed path and template list.
MatchInit ==
    /\ requestPath \in RequestPaths
    /\ specPaths \in TemplateLists
    /\ matchResult = Null
    /\ mpc = "ready"
    /\ validators = Null
    /\ hasRegistered = FALSE
    /\ coverageOptions = NoOptions
    /\ allEndpoints = <<>>
    /\ covered = {}
    /\ registrations = 0
    /\ specRegistered = FALSE
    /\ recorded = {}
    /\ pc = "off"
    /\ lastCall = NoCall
    /\ document = Null
    /\ resolved = Null
    /\ rpc = "off"

CallMatchPath ==
    /\ mpc = "ready"
    /\ matchResult' = MatchPath(requestPath, specPaths)
    /\ mpc' = "done"
    /\ UNCHANGED <<requestPath, specPaths, validators, hasRegistered, coverageOptions,
                   allEndpoints, covered, registrations, specRegistered, recorded,
                   pc, lastCall>>
    /\ UNCHANGED rvars

MatchNext == CallMatchPath

SpecMatch == MatchInit /\ [][MatchNext]_vars

\* Routes, methods and statuses given to the coverage tracker directly.
Pets == <<"/","p","e","t","s">>

Users == <<"/","u">>

TrackerMethods == { GET, Get, <<"P","O","S","T">> }

TrackerStatuses == { S200, S404 }

CoverageEntry(route, method, statuses) ==
    [route |-> route, method |-> method, statuses |-> statuses]

\* The entry lists given to registerEndpoints: none, one entry with two
\* statuses, an entry without statuses, a method in lower case, and the
\* same record twice.
EntryLists ==
    { <<>>,
      <<CoverageEntry(Pets, GET, <<S200, S404>>)>>,
      <<CoverageEntry(Pets, GET, <<S200>>), CoverageEntry(Users, GET, <<>>)>>,
      <<CoverageEntry(Pets, Get, <<S200, S404>>),
        CoverageEntry(Users, <<"P","O","S","T">>, <<S200>>)>>,
      <<CoverageEntry(Users, GET, <<S404>>), CoverageEntry(Users, GET, <<S404>>)>>,
      <<CoverageEntry(Pets, <<"P","O","S","T">>, <<S200, S404, S2XX>>)>> }

\* A direct user of the exported coverageTracker.
TrackerInit ==
    /\ allEndpoints = <<>>
    /\ covered = {}
    /\ recorded = {}
    /\ registrations = 0
    /\ pc = "tracker"
    /\ lastCall = NoCall
    /\ validators = Null
    /\ hasRegistered = FALSE
    /\ coverageOptions = NoOptions
    /\ specRegistered = FALSE
    /\ requestPath = <<>>
    /\ specPaths = <<>>
    /\ matchResult = Null
    /\ mpc = "off"
    /\ document = Null
    /\ resolved = Null
    /\ rpc = "off"

\* coverageTracker.registerEndpoints(entries)
RegisterEndpointsCall(entries) ==
    /\ pc = "tracker"
    /\ registrations < MaxRegistrations
    /\ allEndpoints' = RegisterEndpoints(allEndpoints, entries)
    /\ registrations' = registrations + 1
    /\ lastCall' = [op |-> "registerEndpoints", entries |-> entries]
    /\ UNCHANGED <<covered, recorded, pc, validators, hasRegistered, coverageOptions,
                   specRegistered, requestPath, specPaths, matchResult, mpc>>
    /\ UNCHANGED rvars

\* coverageTracker.recordCoverage(route, method, status)
RecordCoverageCall(route, method, status) ==
    /\ pc = "tracker"
    /\ covered' = RecordCoverage(covered, route, method, status)
    /\ Cardinality(covered') <= MaxCovered
    /\ recorded' = recorded \cup { [route |-> route, method |-> method, status |-> status] }
    /\ lastCall' = [op |-> "recordCoverage", route |-> route, method |-> method,
                    status |-> status]
    /\ UNCHANGED <<allEndpoints, registrations, pc, validators, hasRegistered,
                   coverageOptions, specRegistered, requestPath, specPaths,
                   matchResult, mpc>>
    /\ UNCHANGED rvars

TrackerNext ==
    \/ \E entries \in EntryLists : RegisterEndpointsCall(entries)
    \/ \E route \in {Pets, Users}, method \in TrackerMethods, status \in TrackerStatuses :
          RecordCoverageCall(route, method, status)

SpecTracker == TrackerInit /\ [][TrackerNext]_vars

\* { $ref: pointer }
Ref(pointer) == Obj(RefKey :> Str(pointer))

\* { $ref: pointer, key: value }
RefWith(pointer, key, value) == Obj(RefKey :> Str(pointer) @@ key :> value)

\* The values of the key c: a string, a plain object, a reference to
\* another file, a local reference to nothing, and an array.
ValuesC ==
    { Str(<<"s">>),
      Obj(<<"x">> :> Str(<<"s">>) @@ <<"y">> :> Str(<<"t">>)),
      Ref(<<"e","#","/","x">>),
      Ref(<<"#","/","z">>),
      Arr(<<Str(<<"s">>)>>) }

\* The values of the key b: a reference to c alone and with a sibling that
\* c may have too, a reference below a key, a plain object, a pointer into
\* c, and a reference inside an array.
ValuesB ==
    { Ref(<<"#","/","c">>),
      RefWith(<<"#","/","c">>, <<"x">>, Str(<<"u">>)),
      Obj(<<"x">> :> Ref(<<"#","/","c">>)),
      Obj(<<"x">> :> Str(<<"v">>) @@ <<"y">> :> Str(<<"w">>)),
      Ref(<<"#","/","c","/","x">>),
      Arr(<<Ref(<<"#","/","c">>)>>) }

\* The values of the key a: a reference to b alone, with a sibling that
\* holds a reference, and with a plain sibling; a pointer into b; a pointer
\* with the escapes ~0 and ~1; references inside an array; a pointer to an
\* inherited property; and a $ref that is not a string.
ValuesA ==
    { Ref(<<"#","/","b">>),
      RefWith(<<"#","/","b">>, <<"x">>, Ref(<<"#","/","c">>)),
      Ref(<<"#","/","b","/","x">>),
      RefWith(<<"#","/","b">>, <<"y">>, Str(<<"u">>)),
      RefWith(<<"#","/","~","0","~","1">>, <<"k">>, Str(<<"u">>)),
      Obj(<<"x">> :> Arr(<<Ref(<<"#","/","c">>), Str(<<"s">>)>>)),
      Ref(<<"#","/","c","o","n","s","t","r","u","c","t","o","r">>),
      Obj(RefKey :> Ref(<<"#","/","c">>)) }

\* The documents given to the resolver.  The root has the keys a, b, c and
\* '~/'; the local references of a point into b, c or '~/', those of b
\* into c, and c and '~/' hold no local reference that resolves, so that
\* no reference leads back to a node it came from.
Documents ==
    { Obj(<<"a">> :> a @@ <<"b">> :> b @@ <<"c">> :> c
          @@ <<"~","/">> :> Obj(<<"k">> :> Str(<<"e">>) @@ <<"x">> :> Str(<<"f">>))) :
        a \in ValuesA, b \in ValuesB, c \in ValuesC }

\* A direct caller of resolveRefsSync, on every document.
ResolveInit ==
    /\ document \in Documents
    /\ resolved = Null
    /\ rpc = "ready"
    /\ validators = Null
    /\ hasRegistered = FALSE
    /\ coverageOptions = NoOptions
    /\ allEndpoints = <<>>
    /\ covered = {}
    /\ registrations = 0
    /\ specRegistered = FALSE
    /\ recorded = {}
    /\ pc = "off"
    /\ lastCall = NoCall
    /\ requestPath = <<>>
    /\ specPaths = <<>>
    /\ matchResult = Null
    /\ mpc = "off"

\* const resolvedSpec = resolveRefsSync(spec)
CallResolveRefsSync ==
    /\ rpc = "ready"
    /\ resolved' = ResolveRefsSync(document)
    /\ rpc' = "done"
    /\ UNCHANGED <<document, mvars, avars>>

\* resolveRefsSync(resolvedSpec): the resolver applied to its own output.
CallResolveRefsSyncAgain ==
    /\ rpc = "done"
    /\ document' = resolved
    /\ resolved' = ResolveRefsSync(resolved)
    /\ rpc' = "again"
    /\ UNCHANGED <<mvars, avars>>

ResolveNext ==
    \/ CallResolveRefsSync
    \/ CallResolveRefsSyncAgain

SpecResolve == ResolveInit /\ [][ResolveNext]_vars

\* The value a response of the parser's inputs holds under each key: a
\* different method and path in request, config and req, a different
\* number in statusCode and status, a different body in data and body.
ShapeValue(key) ==
    CASE key = "request" -> Obj([method |-> Str(Post), url |-> Str(<<"/","r","q">>)])
      [] key = "config" -> Obj([method |-> Str(<<"p","u","t">>), url |-> Str(<<"/","c","f">>)])
      [] key = "req" -> Obj([method |-> Str(Delete), path |-> Str(<<"/","r","s">>)])
      [] key = "statusCode" -> Num(201)
      [] key = "status" -> Num(202)
      [] key = "data" -> Json("data")
      [] key = "body" -> Json("body")

\* The values given to parseResponse: an object for every set of the keys
\* the shapes test, alone, inside a wrapper's response, and next to a
\* response that is no object; and values that are no objects.
ShapedResponses ==
    LET shaped == { Obj([key \in keys |-> ShapeValue(key)]) :
                      keys \in SUBSET {"request", "config", "req", "statusCode",
                                       "status", "data", "body"} }
    IN  shaped
        \cup { Obj([response |-> Obj([status |-> Num(203)])] @@ r.obj) : r \in shaped }
        \cup { Obj([response |-> Str(<<"o","k">>)] @@ r.obj) : r \in shaped }
        \cup { Undefined, Null, Num(200), Str(<<"o","k">>) }

\* A direct caller of parseResponse.
ParseInit ==
    /\ pc = "parser"
    /\ lastCall = NoCall
    /\ validators = Null
    /\ hasRegistered = FALSE
    /\ coverageOptions = NoOptions
    /\ allEndpoints = <<>>
    /\ covered = {}
    /\ registrations = 0
    /\ specRegistered = FALSE
    /\ recorded = {}
    /\ requestPath = <<>>
    /\ specPaths = <<>>
    /\ matchResult = Null
    /\ mpc = "off"
    /\ document = Null
    /\ resolved = Null
    /\ rpc = "off"

\* parseResponse(response)
CallParseResponse(response) ==
    /\ pc = "parser"
    /\ lastCall' = [op |-> "parseResponse", response |-> response,
                    outcome |-> ParseResponse(response)]
    /\ UNCHANGED <<validators, hasRegistered, coverageOptions, allEndpoints, covered,
                   registrations, specRegistered, recorded, pc, mvars, rvars>>

ParseNext == \E response \in ShapedResponses : CallParseResponse(response)

SpecParse == ParseInit /\ [][ParseNext]_vars

\* Documents whose references may lead back to where they came from: each
\* of the keys a, b and c holds a string, a reference to a, b or c, a
\* reference to a below a key, or a reference to c with a sibling that
\* holds a reference to b.
CyclicDocuments ==
    LET values == { Str(<<"s">>),
                    Ref(<<"#","/","a">>),
                    Ref(<<"#","/","b">>),
                    Ref(<<"#","/","c">>),
                    Obj(<<"x">> :> Ref(<<"#","/","a">>)),
                    RefWith(<<"#","/","c">>, <<"x">>, Ref(<<"#","/","b">>)) }
    IN  { Obj(<<"a">> :> a @@ <<"b">> :> b @@ <<"c">> :> c) :
            a \in values, b \in values, c \in values }

\* A caller of resolveRefsSync on a call stack of MaxStackDepth calls.
CycleInit ==
    /\ document \in CyclicDocuments
    /\ resolved = Null
    /\ rpc = "ready"
    /\ validators = Null
    /\ hasRegistered = FALSE
    /\ coverageOptions = NoOptions
    /\ allEndpoints = <<>>
    /\ covered = {}
    /\ registrations = 0
    /\ specRegistered = FALSE
    /\ recorded = {}
    /\ pc = "off"
    /\ lastCall = NoCall
    /\ requestPath = <<>>
    /\ specPaths = <<>>
    /\ matchResult = Null
    /\ mpc = "off"

\* resolveRefsSync(spec): the call ends, by returning or by throwing.
CallResolveRefsSyncOnStack ==
    /\ rpc = "ready"
    /\ resolved' = ResolveOnStack(document, document, 0)
    /\ rpc' = "done"
    /\ UNCHANGED <<document, mvars, avars>>

CycleNext == CallResolveRefsSyncOnStack

SpecCycle == CycleInit /\ [][CycleNext]_vars

(***************************************************************************)
(* The vocabulary of the properties of matchPath, stated on the strings    *)
(* themselves.                                                             *)
(***************************************************************************)
\* The observed path up to its first '?'.
BeforeQuery(path) == SubSeq(path, 1, FirstOf(path, {"?"}) - 1)

\* How many non-empty segments a path has: the places where a run of
\* characters other than '/' starts.
NonEmptySegmentCount(path) ==
    Cardinality({ i \in 1..Len(path) : path[i] # "/" /\ (i = 1 \/ path[i - 1] = "/") })

\* The non-empty segments of the observed path, query string removed.
ObservedSegmentsOf(path) == Segments(BeforeQuery(path))

\* A template accepts an observed path: as many segments, and every
\* template segment is a parameter or equals the observed one.
TemplateAccepts(template, path) ==
    LET ts == Segments(template)
        os == ObservedSegmentsOf(path)
    IN  /\ Len(ts) = Len(os)
        /\ \A k \in 1..Len(ts) : IsParamSegment(ts[k]) \/ ts[k] = os[k]

\* 10 per literal segment, 1 per parameter segment.
TemplateScore(template) ==
    LET ts == Segments(template)
    IN  10 * Cardinality({ k \in 1..Len(ts) : ~IsParamSegment(ts[k]) })
            + Cardinality({ k \in 1..Len(ts) : IsParamSegment(ts[k]) })

\* The positions of a list of templates whose template accepts the path.
AcceptingIn(path, templates) ==
    { i \in 1..Len(templates) : TemplateAccepts(templates[i], path) }

\* The first of the accepting templates with the highest score.
BestTemplate(path, templates) ==
    LET accepting == AcceptingIn(path, templates)
        best == { i \in accepting :
                    \A j \in accepting :
                        TemplateScore(templates[j]) <= TemplateScore(templates[i]) }
    IN  templates[CHOOSE i \in best : \A j \in best : i <= j]

Accepting == AcceptingIn(requestPath, specPaths)

\* The accepting positions with the highest score.
BestAccepting ==
    { i \in Accepting :
        \A j \in Accepting : TemplateScore(specPaths[j]) <= TemplateScore(specPaths[i]) }

Min(S) == CHOOSE i \in S : \A j \in S : i <= j

\* Two templates that differ at exactly one segment, a literal in the first
\* and a parameter in the second.
LiteralVersusParameter(t, u) ==
    LET ts == Segments(t)
        us == Segments(u)
    IN  /\ Len(ts) = Len(us)
        /\ \E k \in 1..Len(ts) :
              /\ ~IsParamSegment(ts[k])
              /\ IsParamSegment(us[k])
              /\ \A n \in (1..Len(ts)) \ {k} : ts[n] = us[n]

AllLiteral(template) ==
    \A k \in 1..Len(Segments(template)) : ~IsParamSegment(Segments(template)[k])

(***************************************************************************)
(* C6.  Among the templates that accept the observed path, matchPath       *)
(* returns one with the highest score (10 per literal segment, 1 per       *)
(* parameter segment): the first of them in the candidate list.  A         *)
(* template with a literal at a position thus beats an accepted template   *)
(* that differs from it only by a parameter there.                         *)
(***************************************************************************)
C6_HighestScoreFirstWins ==
    (mpc = "done" /\ Accepting # {}) =>
        /\ matchResult # Null
        /\ matchResult.matched = specPaths[Min(BestAccepting)]
        /\ \A i, j \in Accepting :
              LiteralVersusParameter(specPaths[i], specPaths[j])
                  => matchResult.matched # specPaths[j]

\* Two different accepted templates share the highest score, and the one
\* that comes first was returned.
C6_Witness ==
    /\ mpc = "done"
    /\ matchResult # Null
    /\ \E i, j \in BestAccepting :
          /\ i < j
          /\ specPaths[i] # specPaths[j]
          /\ matchResult.matched = specPaths[i]

(***************************************************************************)
(* C7.  As claimed: for every parameter segment {x} of the matched         *)
(* template, params binds x to the observed segment at that position.      *)
(* This fails when a template names the same parameter twice.              *)
(***************************************************************************)
C7_EveryParameterSegmentBound ==
    (mpc = "done" /\ matchResult # Null) =>
        LET ts == Segments(matchResult.matched)
            os == ObservedSegmentsOf(requestPath)
        IN  \A k \in 1..Len(ts) :
                IsParamSegment(ts[k]) =>
                    /\ ParamName(ts[k]) \in DOMAIN matchResult.params
                    /\ matchResult.params[ParamName(ts[k])] = os[k]

(***************************************************************************)
(* C7, amended.  params has exactly the names of the matched template's    *)
(* parameter segments (braces around letters, digits and underscores)      *)
(* other than __proto__, which is never bound, and binds each name to the  *)
(* observed segment at the last position where the template has that       *)
(* parameter; a name that occurs once is bound to the observed segment at  *)
(* its position, as the same string.                                       *)
(***************************************************************************)
C7_LastOccurrenceBound ==
    (mpc = "done" /\ matchResult # Null) =>
        LET ts == Segments(matchResult.matched)
            os == ObservedSegmentsOf(requestPath)
            positions == { k \in 1..Len(ts) :
                            IsParamSegment(ts[k]) /\ ParamName(ts[k]) # ProtoKey }
        IN  /\ DOMAIN matchResult.params = { ParamName(ts[k]) : k \in positions }
            /\ \A k \in positions :
                  (\A n \in positions : ts[n] = ts[k] => n <= k)
                      => matchResult.params[ParamName(ts[k])] = os[k]

\* The matched template names one parameter at two positions, and the
\* observed segments there differ.
C7_Witness ==
    /\ mpc = "done"
    /\ matchResult # Null
    /\ LET ts == Segments(matchResult.matched)
           os == ObservedSegmentsOf(requestPath)
       IN  \E k, n \in 1..Len(ts) :
               /\ k < n
               /\ IsParamSegment(ts[k])
               /\ ts[k] = ts[n]
               /\ os[k] # os[n]
               /\ matchResult.params[ParamName(ts[n])] = os[n]

(***************************************************************************)
(* C8.  For an observed path p without '?', matchPath(p + '?' + q) for     *)
(* every query string q and matchPath(p + '/') return what matchPath(p)    *)
(* returned: the same template and params, or null alike.                  *)
(***************************************************************************)
C8_QueryAndTrailingSlashIgnored ==
    (mpc = "done" /\ \A i \in 1..Len(requestPath) : requestPath[i] # "?") =>
        /\ \A q \in Queries :
              MatchPath(requestPath \o <<"?">> \o q, specPaths) = matchResult
        /\ MatchPath(requestPath \o <<"/">>, specPaths) = matchResult

\* A path without '?' matched a template with a parameter.
C8_Witness ==
    /\ mpc = "done"
    /\ \A i \in 1..Len(requestPath) : requestPath[i] # "?"
    /\ matchResult # Null
    /\ DOMAIN matchResult.params # {}

(***************************************************************************)
(* C9.  matchPath never returns a template whose number of non-empty       *)
(* segments differs from that of the normalized observed path, and it      *)
(* returns null exactly when no template of the list accepts the path.     *)
(***************************************************************************)
C9_SegmentCountAndNull ==
    mpc = "done" =>
        /\ matchResult # Null =>
              NonEmptySegmentCount(matchResult.matched)
                  = NonEmptySegmentCount(BeforeQuery(requestPath))
        /\ matchResult = Null <=> Accepting = {}

\* null was returned although a template agrees with the leading segments
\* of a longer observed path.
C9_Witness ==
    /\ mpc = "done"
    /\ matchResult = Null
    /\ \E i \in 1..Len(specPaths) :
          LET ts == Segments(specPaths[i])
              os == ObservedSegmentsOf(requestPath)
          IN  /\ 0 < Len(ts)
              /\ Len(ts) < Len(os)
              /\ \A k \in 1..Len(ts) : ts[k] = os[k]

(***************************************************************************)
(* C10.  As claimed: for every all-literal template t of the list whose    *)
(* segments are those of the observed path, matchPath returns t with empty *)
(* params.  This fails when an earlier template has the same segments.     *)
(***************************************************************************)
C10_LiteralTemplateReturned ==
    mpc = "done" =>
        \A i \in 1..Len(specPaths) :
            (AllLiteral(specPaths[i])
                /\ Segments(specPaths[i]) = ObservedSegmentsOf(requestPath))
            => matchResult = [matched |-> specPaths[i], params |-> EmptyObject]

(***************************************************************************)
(* C10, amended.  For every all-literal template t of the list whose       *)
(* segments are those of the observed path, matchPath returns, with empty  *)
(* params, the first template of the list that has the segments of t: t    *)
(* itself unless an earlier template differs from t only in empty          *)
(* segments, such as a trailing slash.                                     *)
(***************************************************************************)
C10_FirstWithSameSegmentsReturned ==
    mpc = "done" =>
        \A i \in 1..Len(specPaths) :
            (AllLiteral(specPaths[i])
                /\ Segments(specPaths[i]) = ObservedSegmentsOf(requestPath))
            => /\ matchResult # Null
               /\ matchResult.params = EmptyObject
               /\ matchResult.matched =
                      specPaths[Min({ j \in 1..Len(specPaths) :
                                        Segments(specPaths[j]) = Segments(specPaths[i]) })]

\* An all-literal template with the observed segments was returned although
\* a parameter template that accepts the path comes before it.
C10_Witness ==
    /\ mpc = "done"
    /\ matchResult # Null
    /\ \E i, j \in 1..Len(specPaths) :
          /\ j < i
          /\ AllLiteral(specPaths[i])
          /\ Segments(specPaths[i]) = ObservedSegmentsOf(requestPath)
          /\ Len(Segments(specPaths[i])) > 0
          /\ ~AllLiteral(specPaths[j])
          /\ TemplateAccepts(specPaths[j], requestPath)
          /\ matchResult.matched = specPaths[i]

(***************************************************************************)
(* The vocabulary of the properties of isValidResponse and                 *)
(* validateResponse: the steps of the validation, stated on the table.     *)
(***************************************************************************)
\* The last call was isValidResponse.
Called == lastCall.op = "isValidResponse"

\* The last call was isValidResponse and validateResponse returned a result.
Validated == Called /\ "result" \in DOMAIN lastCall

\* The last call was isValidResponse, a table was registered, and
\* parseResponse accepted the response: validateResponse went on to its steps.
Checked == Called /\ validators # Null /\ ~Threw(ParseResponse(lastCall.response))

\* What parseResponse made of the response of the last call.
Parsed == ParseResponse(lastCall.response).returned

\* Step 1: some template of the table accepts the observed path.
PathMatches == AcceptingIn(Parsed.path, validators.keys) # {}

\* The template the path is matched to.
Template == BestTemplate(Parsed.path, validators.keys)

\* Step 2: the method, in lower case, is declared under the template.
MethodDeclared == Has(validators.at[Template], ToLowerCase(Parsed.method))

\* The response entries of the operation.
Entries == validators.at[Template].at[ToLowerCase(Parsed.method)].responses

\* The status as a decimal string.
Status == NumberToString(Parsed.status)

FirstDigitXX == <<Status[1], "X", "X">>

\* Step 3: an entry is resolved for the status.
StatusResolved ==
    Has(Entries, Status) \/ Has(Entries, DefaultKey) \/ Has(Entries, FirstDigitXX)

\* The key of the entry used: exact, else 'default', else the wildcard.
EntryKey ==
    CASE Has(Entries, Status) -> Status
      [] ~Has(Entries, Status) /\ Has(Entries, DefaultKey) -> DefaultKey
      [] OTHER -> FirstDigitXX

\* Step 4: the entry has no body validator, or its validator accepts.
BodyAccepted ==
    \/ Entries.at[EntryKey].body = Undefined
    \/ /\ "json" \in DOMAIN Parsed.body
       /\ Parsed.body.json \in SchemaAccepts[Entries.at[EntryKey].body.schema]

\* validateResponse returned valid: true.
ReturnedValid == Validated /\ lastCall.result.valid

\* The result is invalid with exactly one error, whose message is this one.
OneError(text) ==
    /\ Validated
    /\ ~lastCall.result.valid
    /\ Len(lastCall.result.errors) = 1
    /\ lastCall.result.errors[1].message.text = text

(***************************************************************************)
(* C1.  In any sequence of registerSpecs, reset and isValidResponse calls, *)
(* an isValidResponse call made while no spec is registered (no            *)
(* registerSpecs call ever returned, or reset() ran after the last one     *)
(* that did) throws the 'Cannot validate responses without defining API    *)
(* schemas' error and does not return, whatever the response.              *)
(***************************************************************************)
C1_UnregisteredThrowsConfigurationError ==
    (Called /\ ~specRegistered) => lastCall.outcome = Throw(ConfigurationError)

\* A spec was registered with coverage, reset() ran, and a well-formed
\* response was then given to isValidResponse, which threw.
C1_Witness ==
    /\ Called
    /\ ~specRegistered
    /\ allEndpoints # <<>>
    /\ ~Threw(ParseResponse(lastCall.response))
    /\ Threw(lastCall.outcome)

(***************************************************************************)
(* C2.  With a registered validator table, isValidResponse(r) throws an    *)
(* AssertionError carrying the result's error list exactly when            *)
(* validateResponse(r, table) returns valid: false, and returns normally   *)
(* exactly when it returns valid: true.                                    *)
(***************************************************************************)
C2_ThrowsExactlyWhenInvalid ==
    (Called /\ validators # Null) =>
        LET v == ValidateResponse(lastCall.response, validators)
            returnedInvalid == ~Threw(v) /\ ~v.returned.valid
            returnedValid == ~Threw(v) /\ v.returned.valid
        IN  /\ (Threw(lastCall.outcome) /\ lastCall.outcome.threw.name = "AssertionError")
                    <=> returnedInvalid
            /\ returnedInvalid =>
                    /\ lastCall.outcome.threw.actual = v.returned.errors
                    /\ lastCall.outcome.threw.message.details = v.returned.errors
            /\ ~Threw(lastCall.outcome) <=> returnedValid

\* A registered table, a response whose body the schema rejects, and the
\* AssertionError thrown for it.
C2_Witness ==
    /\ Validated
    /\ validators # Null
    /\ Threw(lastCall.outcome)
    /\ lastCall.outcome.threw.name = "AssertionError"
    /\ "keyword" \in DOMAIN lastCall.outcome.threw.actual[1]

(***************************************************************************)
(* C3.  validateResponse checks path, method, status and body in this      *)
(* order and stops at the first step that fails: an unmatched path yields  *)
(* exactly one 'No matching path' error whose expected value is the list   *)
(* of all template paths of the table; otherwise an undeclared method      *)
(* yields exactly one 'No <METHOD> operation defined' error; otherwise an  *)
(* unresolvable status yields exactly one 'No response schema defined'     *)
(* error; and the errors of the body are reported only when the three      *)
(* earlier steps passed.  The code departs from this for a method whose    *)
(* lower-case name every object inherits, such as 'constructor': it is     *)
(* not declared, and validateResponse throws a TypeError.                  *)
(***************************************************************************)
C3_FirstFailingStepReported ==
    Checked =>
        IF ~PathMatches
        THEN /\ OneError("No matching path found in OpenAPI spec for")
             /\ lastCall.result.errors[1].expected = validators.keys
        ELSE IF ~MethodDeclared
        THEN /\ OneError("No <METHOD> operation defined for")
             /\ lastCall.result.errors[1].message.method = Parsed.method
             /\ lastCall.result.errors[1].message.path = Template
        ELSE IF ~StatusResolved
        THEN OneError("No response schema defined for")
        ELSE \/ ReturnedValid
             \/ /\ Validated
                /\ \A i \in 1..Len(lastCall.result.errors) :
                      "keyword" \in DOMAIN lastCall.result.errors[i]

\* The path matched a template that does not declare the method, and
\* isValidResponse threw what validateResponse threw, a TypeError.
C3_Witness ==
    /\ Checked
    /\ PathMatches
    /\ ~MethodDeclared
    /\ lastCall.outcome = Throw(TypeError)

(***************************************************************************)
(* C4.  validateResponse returns valid: true, with no errors, exactly when *)
(* the path matches a template, the method is declared under it, a status  *)
(* entry is resolved, and either that entry has no body validator (then    *)
(* any body is accepted) or its body validator accepts the parsed body.    *)
(***************************************************************************)
C4_ValidExactlyWhenAllStepsPass ==
    Checked =>
        /\ ReturnedValid
                <=> (PathMatches /\ MethodDeclared /\ StatusResolved /\ BodyAccepted)
        /\ ReturnedValid => "errors" \notin DOMAIN lastCall.result
        /\ (Validated /\ ~ReturnedValid) => Len(lastCall.result.errors) > 0

\* A valid result for a body no schema of the table accepts: the entry
\* resolved has no body validator.
C4_Witness ==
    /\ Checked
    /\ ReturnedValid
    /\ Entries.at[EntryKey].body = Undefined
    /\ \A name \in DOMAIN SchemaAccepts : Parsed.body.json \notin SchemaAccepts[name]

(***************************************************************************)
(* C5.  For a matched path and method, the response entry used for a       *)
(* status is the one keyed by the exact decimal status string if the       *)
(* table has one, otherwise the one keyed 'default' if present, otherwise  *)
(* the one keyed by the first digit of the status followed by 'XX':        *)
(* 'default' is never used when an exact entry exists and the wildcard is  *)
(* never used when an exact or a 'default' entry exists.  The entry used   *)
(* shows in the result: its body validator, and no other, decides.         *)
(***************************************************************************)
C5_ExactThenDefaultThenWildcard ==
    (Checked /\ PathMatches /\ MethodDeclared /\ StatusResolved) =>
        LET used == IF Has(Entries, Status) THEN Entries.at[Status]
                    ELSE IF Has(Entries, DefaultKey) THEN Entries.at[DefaultKey]
                    ELSE Entries.at[FirstDigitXX]
        IN  /\ Validated
            /\ IF used.body = Undefined
               THEN lastCall.result.valid
               ELSE IF "json" \in DOMAIN Parsed.body
                           /\ Parsed.body.json \in SchemaAccepts[used.body.schema]
                    THEN lastCall.result.valid
                    ELSE /\ ~lastCall.result.valid
                         /\ \A i \in 1..Len(lastCall.result.errors) :
                               lastCall.result.errors[i].keyword = used.body.schema

\* No exact entry, a 'default' entry and a wildcard entry that would decide
\* differently: the result is that of 'default'.
C5_Witness ==
    /\ Checked
    /\ PathMatches
    /\ MethodDeclared
    /\ ~Has(Entries, Status)
    /\ Has(Entries, DefaultKey)
    /\ Has(Entries, FirstDigitXX)
    /\ Entries.at[DefaultKey].body = Undefined
    /\ Entries.at[FirstDigitXX].body # Undefined
    /\ ReturnedValid
    /\ Parsed.body.json \notin SchemaAccepts[Entries.at[FirstDigitXX].body.schema]

(***************************************************************************)
(* The vocabulary of the properties of the coverage tracker.               *)
(***************************************************************************)
\* The normalized key of a record or of a recordCoverage call: the method
\* in upper case, the route and the status.
NormalizedKey(r) == <<ToUpperCase(r.method), r.route, r.status>>

\* The normalized keys recorded so far.
RecordedKeys == { NormalizedKey(c) : c \in recorded }

(***************************************************************************)
(* C11.  After any sequence of registerEndpoints and recordCoverage calls, *)
(* getUncovered() returns exactly the universe records, in their order,    *)
(* whose normalized key (method in upper case, route, status) has not been *)
(* recorded: registering (/pets, GET, [200, 404]) and recording            *)
(* (/pets, GET, 200) leaves exactly (/pets, GET, 404).                     *)
(***************************************************************************)
C11_UncoveredAreTheUnrecorded ==
    pc = "tracker" =>
        GetUncovered
            = SelectSeq(allEndpoints, LAMBDA r : NormalizedKey(r) \notin RecordedKeys)

\* The example: (/pets, GET, [200, 404]) registered, 200 recorded with the
\* method written in lower case, and (/pets, GET, 404) is what is left.
C11_Witness ==
    /\ pc = "tracker"
    /\ allEndpoints = <<[route |-> Pets, method |-> GET, status |-> S200],
                        [route |-> Pets, method |-> GET, status |-> S404]>>
    /\ recorded = { [route |-> Pets, method |-> Get, status |-> S200] }
    /\ GetUncovered = <<[route |-> Pets, method |-> GET, status |-> S404]>>

UniverseKeys ==
    { MakeKey(allEndpoints[i].route, allEndpoints[i].method, allEndpoints[i].status) :
        i \in 1..Len(allEndpoints) }

\* The universe holds a record for every status entry of the table: the
\* table was registered with coverage enabled.
TableInUniverse ==
    /\ validators # Null
    /\ \A i \in 1..Len(validators.keys) :
          LET path == validators.keys[i]
              operations == validators.at[path]
          IN  \A method \in DOMAIN operations.at :
                \A status \in DOMAIN operations.at[method].responses.at :
                    MakeKey(path, method, status) \in UniverseKeys

(***************************************************************************)
(* C13.  In every state reachable by registerSpecs (with coverage enabled) *)
(* and isValidResponse calls, the covered set is a subset of the coverage  *)
(* universe: every recorded key is the key of some universe record, so the *)
(* covered count never exceeds total.  The code departs from this: it      *)
(* records the observed status of every response whose path matches,       *)
(* declared in the table or not.                                           *)
(***************************************************************************)
C13_CoveredWithinUniverse ==
    TableInUniverse =>
        /\ covered \subseteq UniverseKeys
        /\ Cardinality(covered) <= Len(allEndpoints)

\* A table registered with coverage, a response the table accepts through
\* its 'default' entry, and its key recorded although no universe record
\* has it.
C13_Witness ==
    /\ TableInUniverse
    /\ CoverageEnabled(coverageOptions)
    /\ Checked
    /\ ReturnedValid
    /\ MakeKey(Template, Parsed.method, Status) \in covered
    /\ MakeKey(Template, Parsed.method, Status) \notin UniverseKeys

(***************************************************************************)
(* The vocabulary of the properties of registerSpecs and reset.            *)
(***************************************************************************)
\* One sequence is the beginning of another.
IsPrefix(short, long) ==
    Len(short) <= Len(long) /\ SubSeq(long, 1, Len(short)) = short

\* The step is a registerSpecs call that returned.
RegisteredNow == lastCall'.op = "registerSpecs" /\ ~Threw(lastCall'.outcome)

\* The universe records of a table built from files: one per declared
\* status, in the order of the documents.
RecordsOf(files) ==
    RegisterEndpoints(<<>>, BuildValidatorsSync(files).returned.coverageEntries)

C15_FailedRegistrationLeavesNoTable ==
    (lastCall.op = "registerSpecs"
        /\ \E i \in 1..Len(lastCall.files) :
              lastCall.files[i].kind \in {"unreadable", "invalidJson"})
    => /\ Threw(lastCall.outcome)
       /\ \E i \in 1..Len(lastCall.files) :
             /\ lastCall.files[i].kind \in {"unreadable", "invalidJson"}
             /\ lastCall.outcome.threw.file = lastCall.files[i].name
       /\ validators = Null

\* registerSpecs has just thrown on a file that is not JSON, and the table
\* of an earlier call is still there, under the options of the failed call.
C15_Witness ==
    /\ lastCall.op = "registerSpecs"
    /\ lastCall.files = <<InvalidJsonFile>>
    /\ Threw(lastCall.outcome)
    /\ validators # Null
    /\ hasRegistered
    /\ coverageOptions = lastCall.options
    /\ CoverageEnabled(coverageOptions)
    /\ allEndpoints = <<>>

(***************************************************************************)
(* The vocabulary of the properties of the validator build.                *)
(***************************************************************************)
\* The (path, method, status) of the documents of a file list whose body
\* schema does not compile.
FailedCompilations(files) ==
    { <<path, method, status>> \in
        UNION { { <<p, m, st>> :
                    p \in DOMAIN files[i].document.paths.at,
                    m \in Range(HTTP_METHODS),
                    st \in { S200, S404, S2XX, S4XX, S5XX, DefaultKey } } :
                i \in { n \in 1..Len(files) : files[n].kind = "json" } } :
        \E i \in { n \in 1..Len(files) : files[n].kind = "json" } :
            LET paths == files[i].document.paths
            IN  /\ Has(paths, path)
                /\ Has(paths.at[path], method)
                /\ "responses" \in DOMAIN paths.at[path].at[method]
                /\ Has(paths.at[path].at[method].responses, status)
                /\ "schema" \in DOMAIN paths.at[path].at[method].responses.at[status]
                /\ paths.at[path].at[method].responses.at[status].schema
                      \in UncompilableSchemas }

\* A table has an entry for (path, method, status).
HasEntry(table, path, method, status) ==
    /\ Has(table, path)
    /\ Has(table.at[path], method)
    /\ Has(table.at[path].at[method].responses, status)

\* The same document with every schema that does not compile replaced by
\* one that does.
RepairedResponse(response) ==
    IF "schema" \in DOMAIN response /\ response.schema \in UncompilableSchemas
    THEN [response EXCEPT !.schema = "Any"]
    ELSE response

RepairedOperation(operation) ==
    IF "responses" \in DOMAIN operation
    THEN [operation EXCEPT !.responses =
            [keys |-> operation.responses.keys,
             at |-> [st \in DOMAIN operation.responses.at |->
                        RepairedResponse(operation.responses.at[st])]]]
    ELSE operation

RepairedFile(file) ==
    IF file.kind = "json"
    THEN [file EXCEPT !.document.paths =
            [keys |-> file.document.paths.keys,
             at |-> [p \in DOMAIN file.document.paths.at |->
                        [keys |-> file.document.paths.at[p].keys,
                         at |-> [m \in DOMAIN file.document.paths.at[p].at |->
                                    RepairedOperation(file.document.paths.at[p].at[m])]]]]]
    ELSE file

RepairedFiles(files) == [i \in 1..Len(files) |-> RepairedFile(files[i])]

(***************************************************************************)
(* C16.  When compiling the body schema of one (path, method, status)      *)
(* fails, buildValidatorsSync does not throw, every other entry is built   *)
(* as if the failure had not happened, and that status entry is left in    *)
(* the table without a body validator.  The code departs from the last     *)
(* part: the entry is not in the table at all.                             *)
(***************************************************************************)
C16_FailedCompilationLeavesBareEntry ==
    (lastCall.op = "registerSpecs"
        /\ \A i \in 1..Len(lastCall.files) : lastCall.files[i].kind = "json"
        /\ FailedCompilations(lastCall.files) # {})
    => LET failed == FailedCompilations(lastCall.files)
           repaired == BuildValidatorsSync(RepairedFiles(lastCall.files)).returned
       IN  /\ ~Threw(lastCall.outcome)
           /\ validators.keys = repaired.validators.keys
           /\ \A i \in 1..Len(validators.keys) :
                 LET path == validators.keys[i]
                 IN  /\ validators.at[path].keys = repaired.validators.at[path].keys
                     /\ \A method \in DOMAIN validators.at[path].at :
                           \A status \in DOMAIN
                                   repaired.validators.at[path].at[method].responses.at :
                               <<path, method, status>> \notin failed
                                   => /\ HasEntry(validators, path, method, status)
                                      /\ validators.at[path].at[method].responses.at[status]
                                           = repaired.validators.at[path].at[method]
                                                 .responses.at[status]
           /\ \A f \in failed :
                 /\ HasEntry(validators, f[1], f[2], f[3])
                 /\ validators.at[f[1]].at[f[2]].responses.at[f[3]].body = Undefined

\* A document with a schema that does not compile was registered, and the
\* operation is in the table without an entry for that status.
C16_Witness ==
    /\ lastCall.op = "registerSpecs"
    /\ ~Threw(lastCall.outcome)
    /\ \E f \in FailedCompilations(lastCall.files) :
          /\ Has(validators, f[1])
          /\ Has(validators.at[f[1]], f[2])
          /\ ~Has(validators.at[f[1]].at[f[2]].responses, f[3])
          /\ validators.at[f[1]].at[f[2]].responses.keys # <<>>

(***************************************************************************)
(* The vocabulary of the properties of the reference resolver.             *)
(***************************************************************************)
\* v and every value below it, at any depth.
RECURSIVE SubValues(_)
SubValues(v) ==
    {v} \cup
    IF IsObject(v)
    THEN UNION { SubValues(v.obj[k]) : k \in DOMAIN v.obj }
    ELSE IF IsArray(v)
         THEN UNION { SubValues(v.arr[i]) : i \in 1..Len(v.arr) }
         ELSE {}

\* An object with a $ref string that begins with '#/'.
IsLocalRefNode(n) ==
    /\ IsObject(n)
    /\ RefKey \in DOMAIN n.obj
    /\ IsStr(n.obj[RefKey])
    /\ StartsWith(n.obj[RefKey].str, <<"#","/">>)

\* The pointer of the local reference n leads to a value of the document.
PointerResolvesIn(n, doc) == ResolveLocalRef(n.obj[RefKey].str, doc) # Undefined

(***************************************************************************)
(* C17.  As claimed: the output of resolveRefsSync on a document whose     *)
(* local references are acyclic holds, at any depth, no object with a $ref *)
(* string beginning with '#/' whose pointer resolves in the document.      *)
(* This fails for a reference inside a sibling key of a $ref node: the     *)
(* siblings are copied as they are written.                                *)
(***************************************************************************)
C17_NoResolvableLocalRefLeft ==
    rpc = "done" =>
        \A n \in SubValues(resolved) :
            ~(IsLocalRefNode(n) /\ PointerResolvesIn(n, document))

\* { $ref: '#/b', x: { $ref: '#/c' } } has been resolved, and its output
\* still holds { $ref: '#/c' } under x although '#/c' resolves.
C17_Witness ==
    /\ rpc = "done"
    /\ document.obj[<<"a">>] = RefWith(<<"#","/","b">>, <<"x">>, Ref(<<"#","/","c">>))
    /\ IsObject(document.obj[<<"b">>])
    /\ resolved.obj[<<"a">>].obj[<<"x">>] = Ref(<<"#","/","c">>)
    /\ PointerResolvesIn(Ref(<<"#","/","c">>), document)

(***************************************************************************)
(* C18.  As claimed: resolving the output of resolveRefsSync on an acyclic *)
(* document returns a structure equal to that output.  This fails when the *)
(* first output keeps a local reference that resolves in it: one inside a  *)
(* sibling key of a $ref node, or one whose pointer runs through a node    *)
(* that was itself a reference.                                            *)
(***************************************************************************)
C18_ResolvingTwiceIsResolvingOnce ==
    rpc = "again" => resolved = document

\* The first output kept { $ref: '#/c' } under the sibling key x of a, and
\* the second call has replaced it by the value of c.
C18_Witness ==
    /\ rpc = "again"
    /\ IsObject(document.obj[<<"a">>])
    /\ <<"x">> \in DOMAIN document.obj[<<"a">>].obj
    /\ document.obj[<<"a">>].obj[<<"x">>] = Ref(<<"#","/","c">>)
    /\ resolved.obj[<<"a">>].obj[<<"x">>] = document.obj[<<"c">>]
    /\ resolved # document

\* The keys of the node n other than $ref.
SiblingKeys(n) == (DOMAIN n.obj) \ {RefKey}

\* n is a node with a local $ref that resolves in the document, and with
\* sibling keys.
IsRefWithSiblings(n) ==
    /\ IsLocalRefNode(n)
    /\ PointerResolvesIn(n, document)
    /\ SiblingKeys(n) # {}

\* What the resolver makes of the value the $ref of n points to.
ResolvedTarget(n) ==
    ResolveRefsInObject(ResolveLocalRef(n.obj[RefKey].str, document), document)

\* out is the shallow merge of the target's own properties and the siblings
\* of n as they are written, a sibling winning over the target.
IsShallowMerge(out, target, n) ==
    /\ IsObject(out)
    /\ DOMAIN out.obj = (DOMAIN Spread(target)) \cup SiblingKeys(n)
    /\ \A k \in DOMAIN out.obj :
          out.obj[k] = IF k \in SiblingKeys(n) THEN n.obj[k] ELSE Spread(target)[k]

\* The keys of the root under which the documents hold nodes with a $ref.
NodeKeys == { <<"a">>, <<"b">> }

(***************************************************************************)
(* C19.  As claimed: for every node with a resolvable local $ref and       *)
(* sibling keys, the resolved node is the shallow merge of the resolved    *)
(* target and the siblings, a sibling key winning over the target's, and   *)
(* it has no $ref key.  This fails when the target is itself a node whose  *)
(* $ref the resolver keeps (a reference to another file, or a local one    *)
(* that leads nowhere): the merge inherits that $ref key.                  *)
(***************************************************************************)
C19_MergedWithoutRefKey ==
    rpc = "done" =>
        \A k \in NodeKeys :
            IsRefWithSiblings(document.obj[k]) =>
                /\ IsShallowMerge(resolved.obj[k], ResolvedTarget(document.obj[k]),
                                  document.obj[k])
                /\ RefKey \notin DOMAIN resolved.obj[k].obj

(***************************************************************************)
(* C19, amended.  For every node with a resolvable local $ref and sibling  *)
(* keys, the resolved node is the shallow merge of the resolved target's   *)
(* own properties and the siblings as they are written, a sibling key      *)
(* winning over the target's; it has a $ref key exactly when the resolved  *)
(* target kept one.                                                        *)
(***************************************************************************)
C19_MergedRefKeyOnlyFromTarget ==
    rpc = "done" =>
        \A k \in NodeKeys :
            IsRefWithSiblings(document.obj[k]) =>
                LET target == ResolvedTarget(document.obj[k])
                IN  /\ IsShallowMerge(resolved.obj[k], target, document.obj[k])
                    /\ RefKey \in DOMAIN resolved.obj[k].obj
                          <=> (IsObject(target) /\ RefKey \in DOMAIN target.obj)

\* { $ref: '#/c', x: 'u' } with c = { x: 's', y: 't' } has been resolved to
\* { x: 'u', y: 't' }: the sibling x has won and $ref is gone.
C19_Witness ==
    /\ rpc = "done"
    /\ document.obj[<<"b">>] = RefWith(<<"#","/","c">>, <<"x">>, Str(<<"u">>))
    /\ document.obj[<<"c">>] = Obj(<<"x">> :> Str(<<"s">>) @@ <<"y">> :> Str(<<"t">>))
    /\ resolved.obj[<<"b">>] = Obj(<<"x">> :> Str(<<"u">>) @@ <<"y">> :> Str(<<"t">>))

(***************************************************************************)
(* The vocabulary of the properties of parseResponse.                      *)
(***************************************************************************)
\* The first shape of the fixed order that the keys of the object r match.
ShapeOf(r) ==
    IF "response" \in DOMAIN r.obj /\ IsObject(r.obj["response"]) THEN "wrapper"
    ELSE IF {"request", "statusCode"} \subseteq DOMAIN r.obj THEN "request"
    ELSE IF {"data", "config", "status"} \subseteq DOMAIN r.obj THEN "axios"
    ELSE IF {"body", "req", "statusCode"} \subseteq DOMAIN r.obj THEN "supertest"
    ELSE IF {"status", "statusCode"} \cap DOMAIN r.obj # {} THEN "generic"
    ELSE "none"

\* What the extraction of the generic shape reads from r itself.
GenericFields(r) ==
    [method |-> GET,
     path |-> <<"/">>,
     status |-> IF "status" \in DOMAIN r.obj
                THEN r.obj["status"].num
                ELSE r.obj["statusCode"].num,
     body |-> IF "body" \in DOMAIN r.obj THEN r.obj["body"]
              ELSE IF "data" \in DOMAIN r.obj THEN r.obj["data"]
              ELSE Null]

\* What the extraction of each shape reads from r: the method and path of
\* the shape's own request object, and the shape's own status and body.
FieldsOf(shape, r) ==
    CASE shape = "wrapper" -> GenericFields(r.obj["response"])
      [] shape = "request" ->
            [method |-> ToUpperCase(r.obj["request"].obj["method"].str),
             path |-> r.obj["request"].obj["url"].str,
             status |-> r.obj["statusCode"].num,
             body |-> IF "body" \in DOMAIN r.obj THEN r.obj["body"] ELSE Undefined]
      [] shape = "axios" ->
            [method |-> ToUpperCase(r.obj["config"].obj["method"].str),
             path |-> r.obj["config"].obj["url"].str,
             status |-> r.obj["status"].num,
             body |-> r.obj["data"]]
      [] shape = "supertest" ->
            [method |-> ToUpperCase(r.obj["req"].obj["method"].str),
             path |-> r.obj["req"].obj["path"].str,
             status |-> r.obj["statusCode"].num,
             body |-> r.obj["body"]]
      [] shape = "generic" -> GenericFields(r)

(***************************************************************************)
(* C20.  parseResponse extracts a response by the first shape its keys     *)
(* match in the order: nested response object (unwrapped and parsed in its *)
(* turn), request and statusCode, data and config and status, body and req *)
(* and statusCode, status or statusCode alone.  A value that is no object, *)
(* and an object that matches no shape, make it throw and not return.      *)
(***************************************************************************)
C20_ExtractedByFirstMatchingShape ==
    lastCall.op = "parseResponse" =>
        LET r == lastCall.response
        IN  IF ~IsObject(r) \/ ShapeOf(r) = "none"
            THEN Threw(lastCall.outcome)
            ELSE lastCall.outcome = Return(FieldsOf(ShapeOf(r), r))

\* A response with the keys of all four flat shapes has been parsed, and
\* the request-and-statusCode shape, the earliest of them, was extracted.
C20_Witness ==
    /\ lastCall.op = "parseResponse"
    /\ IsObject(lastCall.response)
    /\ {"request", "statusCode", "data", "config", "status", "body", "req"}
           = DOMAIN lastCall.response.obj
    /\ lastCall.outcome = Return([method |-> <<"P","O","S","T">>,
                                  path |-> <<"/","r","q">>,
                                  status |-> 201,
                                  body |-> Json("body")])

(***************************************************************************)
(* The vocabulary of the properties of the coverage step.                  *)
(***************************************************************************)
\* What isValidResponse does with the response when no coverage is
\* recorded: the configuration error, what validateResponse throws, the
\* assertion error with the error list, or a normal return.
OutcomeWithoutCoverage(response) ==
    IF ~hasRegistered \/ validators = Null
    THEN Throw(ConfigurationError)
    ELSE LET result == ValidateResponse(response, validators)
         IN  IF Threw(result)
             THEN result
             ELSE IF result.returned.valid
                  THEN Return(Undefined)
                  ELSE Throw(AssertionError(result.returned.errors))

\* The coverage step of the call that has just ended threw.
CoverageStepThrew ==
    /\ lastCall.op = "isValidResponse"
    /\ "result" \in DOMAIN lastCall
    /\ CoverageEnabled(coverageOptions)
    /\ Threw(ParseResponse(CalledOnce(lastCall.response)))

(***************************************************************************)
(* C21.  Whatever the coverage options, isValidResponse ends as it does    *)
(* without coverage recording, for every response and every table: it      *)
(* returns, or throws the same error with the same error list.  An error   *)
(* thrown inside the coverage step is dropped, and every error of parsing  *)
(* and validation reaches the caller.                                      *)
(***************************************************************************)
C21_OutcomeIndependentOfCoverage ==
    lastCall.op = "isValidResponse" =>
        lastCall.outcome = OutcomeWithoutCoverage(lastCall.response)

\* With coverage enabled, a response whose body can be read only once was
\* found valid; the coverage step threw on reading the body again, nothing
\* was recorded, and isValidResponse returned.
C21_Witness ==
    /\ CoverageStepThrew
    /\ covered = {}
    /\ lastCall.outcome = Return(Undefined)

(***************************************************************************)
(* The vocabulary of the properties of the validator table.                *)
(***************************************************************************)
\* The documents of the registerSpecs call that has just returned.
RegisteredDocuments ==
    { lastCall.files[i].document : i \in 1..Len(lastCall.files) }

\* The document declares the path.
DeclaresPath(doc, path) == Has(doc.paths, path)

\* The document declares an operation for the path, under any HTTP method.
DeclaresOperation(doc, path) ==
    /\ DeclaresPath(doc, path)
    /\ \E method \in Range(HTTP_METHODS) : Has(doc.paths.at[path], method)

\* The document declares a response for the status of the operation.
DeclaresResponse(doc, path, method, status) ==
    /\ DeclaresPath(doc, path)
    /\ Has(doc.paths.at[path], method)
    /\ "responses" \in DOMAIN doc.paths.at[path].at[method]
    /\ Has(doc.paths.at[path].at[method].responses, status)

\* The document declares an application/json body schema for the status,
\* and the schema compiles.
DeclaresCompilableSchema(doc, path, method, status) ==
    /\ DeclaresResponse(doc, path, method, status)
    /\ "schema" \in DOMAIN doc.paths.at[path].at[method].responses.at[status]
    /\ doc.paths.at[path].at[method].responses.at[status].schema
           \notin UncompilableSchemas

\* registerSpecs has just returned, the table built by buildValidatorsSync
\* in place.
TableBuilt == lastCall.op = "registerSpecs" /\ ~Threw(lastCall.outcome)

\* Every status entry of the table is a declared response, and every body
\* validator a declared schema that compiles.
StatusesAndBodiesDeclared ==
    \A path \in Range(validators.keys) :
        \A method \in Range(validators.at[path].keys) :
            LET responses == validators.at[path].at[method].responses
            IN  \A status \in Range(responses.keys) :
                    /\ \E doc \in RegisteredDocuments :
                           DeclaresResponse(doc, path, method, status)
                    /\ responses.at[status].body # Undefined =>
                           \E doc \in RegisteredDocuments :
                               DeclaresCompilableSchema(doc, path, method, status)

(***************************************************************************)
(* C22.  As claimed: after buildValidatorsSync the table has a path entry  *)
(* only for paths for which a document declares at least one operation, a  *)
(* status entry only for declared responses, and a body validator only     *)
(* where a JSON body schema was declared and compiled.  The first part     *)
(* fails for a path whose path item declares no operation.                 *)
(***************************************************************************)
C22_EntriesOnlyForDeclaredOperations ==
    TableBuilt =>
        /\ \A path \in Range(validators.keys) :
               \E doc \in RegisteredDocuments : DeclaresOperation(doc, path)
        /\ StatusesAndBodiesDeclared

(***************************************************************************)
(* C22, amended.  After buildValidatorsSync the table has a path entry     *)
(* only for paths a document declares, whether or not the path item        *)
(* declares an operation; an operation entry only for declared operations  *)
(* that have responses; a status entry only for declared responses; and a  *)
(* body validator only where a JSON body schema was declared and compiled. *)
(***************************************************************************)
C22_EntriesOnlyForDeclaredPaths ==
    TableBuilt =>
        /\ \A path \in Range(validators.keys) :
               /\ \E doc \in RegisteredDocuments : DeclaresPath(doc, path)
               /\ \A method \in Range(validators.at[path].keys) :
                      \E doc \in RegisteredDocuments :
                          /\ DeclaresPath(doc, path)
                          /\ Has(doc.paths.at[path], method)
                          /\ "responses" \in DOMAIN doc.paths.at[path].at[method]
        /\ StatusesAndBodiesDeclared

\* Two documents were registered; /d, whose path item declares no
\* operation, has an empty entry in the table, and /a/b has a body
\* validator under get and 5XX.
C22_Witness ==
    /\ TableBuilt
    /\ Has(validators, <<"/","d">>)
    /\ validators.at[<<"/","d">>] = EmptyMap
    /\ HasEntry(validators, <<"/","a","/","b">>, Get, S5XX)
    /\ validators.at[<<"/","a","/","b">>].at[Get].responses.at[S5XX].body # Undefined

(***************************************************************************)
(* The vocabulary of the properties of documents with reference cycles.    *)
(* The pointers of these documents name a key of the root.                 *)
(***************************************************************************)
\* The key of the root that the local reference n points to.
TargetKey(n) == SubSeq(n.obj[RefKey].str, 3, Len(n.obj[RefKey].str))

\* The keys of the root that references at any depth of v point to.
AllTargets(v) ==
    { TargetKey(n) : n \in { m \in SubValues(v) : IsLocalRefNode(m) } }
        \cap DOMAIN document.obj

\* The same, leaving out the references inside the sibling keys of a node
\* whose own $ref points to a key of the root.
RECURSIVE TargetsOutsideSiblings(_)
TargetsOutsideSiblings(v) ==
    IF IsLocalRefNode(v) /\ TargetKey(v) \in DOMAIN document.obj
    THEN { TargetKey(v) }
    ELSE IF IsObject(v)
         THEN UNION { TargetsOutsideSiblings(v.obj[k]) : k \in DOMAIN v.obj }
         ELSE IF IsArray(v)
              THEN UNION { TargetsOutsideSiblings(v.arr[i]) : i \in 1..Len(v.arr) }
              ELSE {}

\* The keys a chain of one or more references leads to from key k, the
\* references of a key being given by targets.
RECURSIVE ReachedIn(_, _, _)
ReachedIn(targets, keys, n) ==
    IF n = 0
    THEN {}
    ELSE LET next == UNION { targets[k] : k \in keys }
         IN  next \cup ReachedIn(targets, next, n - 1)

LeadsBack(targets) ==
    \E k \in DOMAIN document.obj :
        k \in ReachedIn(targets, {k}, Cardinality(DOMAIN document.obj))

\* A chain of local references leads from a node back to an ancestor.
HasReferenceCycle ==
    LeadsBack([k \in DOMAIN document.obj |-> AllTargets(document.obj[k])])

\* The same for a chain that runs through no sibling key of a $ref node.
HasCycleOutsideSiblings ==
    LeadsBack([k \in DOMAIN document.obj |-> TargetsOutsideSiblings(document.obj[k])])

(***************************************************************************)
(* C23.  As claimed: resolving a document in which a chain of local        *)
(* references leads from a node back to one of its ancestors never         *)
(* terminates.  The call does end: the recursion exhausts the call stack   *)
(* and the engine throws a RangeError, and a chain that runs through a     *)
(* sibling key of a $ref node is never followed.                           *)
(***************************************************************************)
C23_CycleNeverTerminates ==
    HasReferenceCycle => rpc # "done"

(***************************************************************************)
(* C23, amended.  resolveRefsSync throws the RangeError of an exhausted    *)
(* call stack exactly on the documents in which a chain of local           *)
(* references that runs through no sibling key of a $ref node leads from a *)
(* node back to one of its ancestors; on every other document it returns.  *)
(***************************************************************************)
C23_CycleExhaustsTheStack ==
    rpc = "done" =>
        IF HasCycleOutsideSiblings
        THEN resolved = Throw(RangeError)
        ELSE ~Threw(resolved)

\* The reference of a = { x: { $ref: '#/a' } } leads back to a, which
\* b = { $ref: '#/a' } points to as well, and the call has ended with a
\* RangeError.
C23_Witness ==
    /\ rpc = "done"
    /\ document.obj[<<"b">>] = Ref(<<"#","/","a">>)
    /\ document.obj[<<"a">>] = Obj(<<"x">> :> Ref(<<"#","/","a">>))
    /\ HasReferenceCycle
    /\ resolved = Throw(RangeError)

(***************************************************************************)
(* The vocabulary of the properties of coverage after a valid response.    *)
(***************************************************************************)
\* With coverage enabled, isValidResponse has just returned normally for a
\* response validated against an entry of the table.
ReturnedWithCoverage ==
    /\ CoverageEnabled(coverageOptions)
    /\ Checked
    /\ ReturnedValid
    /\ lastCall.outcome = Return(Undefined)

\* getUncovered() returns the universe record of (route, method, status).
Uncovered(route, method, status) ==
    \E i \in 1..Len(GetUncovered) :
        /\ GetUncovered[i].route = route
        /\ GetUncovered[i].method = method
        /\ GetUncovered[i].status = status

(***************************************************************************)
(* C24.  As claimed: with coverage enabled, once isValidResponse has       *)
(* returned normally for a response validated against a declared entry     *)
(* (route, method, status key), getUncovered() no longer returns the       *)
(* universe record of that entry, whether the key is the exact status,     *)
(* 'default' or the NXX wildcard.  The code records the observed status    *)
(* and not the key of the entry, so a 'default' or wildcard record stays   *)
(* uncovered.                                                              *)
(***************************************************************************)
C24_ValidatedEntryNoLongerUncovered ==
    ReturnedWithCoverage => ~Uncovered(Template, Parsed.method, EntryKey)

\* A table registered with coverage, and a response found valid through a
\* 'default' or wildcard entry: its observed status is recorded, and the
\* universe record of the entry is still returned by getUncovered().
C24_Witness ==
    /\ ReturnedWithCoverage
    /\ EntryKey # Status
    /\ MakeKey(Template, Parsed.method, Status) \in covered
    /\ Uncovered(Template, Parsed.method, EntryKey)

====
